---- MODULE Spec2Model ----
(***************************************************************************)
(* Model of the asynchronous database bridge of the Collectors dashboard   *)
(* (src/src/database.py, class DatabaseManager): the relational store, the  *)
(* three cascade-delete coroutines that run on a dedicated connection with  *)
(* autocommit disabled, the pooled autocommit mutations that interleave     *)
(* with them, and the readiness gate of the background event loop.          *)
(*                                                                         *)
(* The schema is not part of the repository.  The store is modelled as the  *)
(* code uses it: four tables keyed by id, no cascading rule and no foreign  *)
(* key check of its own; every statement may fail (which is what a store    *)
(* that does reject a statement, on a constraint or a lost connection,      *)
(* looks like to the code).  Rows deleted inside an open transaction stay   *)
(* in the committed store, locked, until the transaction commits.           *)
(***************************************************************************)
EXTENDS Naturals, Integers, Sequences, FiniteSets, TLC

\* ------------------------------------------------------------------ bounds
\* Ids 1..MaxId of each of collector, collection and catalog exist at start.
MaxId == 2
\* Cascade deletes submitted in one behaviour.
MaxRuns == 2
\* Pooled autocommit mutations that change the store in one behaviour.
MaxPooled == 1
\* Calls of connect() in one behaviour.
MaxConnects == 2
\* Calls of the operation entry points in one behaviour.
MaxCalls == 2
\* Calls of stop() in one behaviour.
MaxStops == 1
\* Mutations the user starts from the window in one behaviour.
MaxMutations == 1
\* Completion events emitted and not yet handled by the window.
MaxInbox == 2
\* _execute_query calls begun in one behaviour of the pool.
MaxExecutes == 11

\* --------------------------------------------------------------- constants
\* wait_for_loop(timeout=5), in ticks of the 0.1 polling step: 5 / 0.1
TimeoutTicks == 50
\* time.sleep(0.1): one tick
SleepTicks == 1
\* close_future.result(timeout=5), in the same ticks
StopTimeoutTicks == 50
\* aiomysql.create_pool(..., maxsize=10)
PoolMaxSize == 10

VARIABLES
    \* the committed store
    collector,        \* set of collector ids
    collection,       \* set of rows [id, author]
    catalog,          \* set of catalog ids
    collection_item,  \* set of rows [id, id_collection, id_catalog]
    nextCollectionId, \* AUTO_INCREMENT of collection
    \* one cascade-delete coroutine per slot t
    pc,               \* position of the coroutine
    kind,             \* which of the three coroutines runs in the slot
    target,           \* collector_id / collection_id / item_id
    conn,             \* the local variable conn: "none", "open", "closed"
    collections,      \* fetchall() of the DependencyScan still to iterate
    scanned,          \* collection ids the DependencyScan discovered
    count,            \* rows the DependencyScan counted, -1 before it
    txDel,            \* rows deleted in the open transaction, not committed
    exc,              \* the exception propagating, "none" if none
    result,           \* what the coroutine finished with
    log,              \* statements issued on the dedicated connection
    \* history of the run in a slot, for stating the claims
    before,           \* the committed store when the coroutine started
    interf,           \* another operation committed a change since then
    runs,             \* cascade deletes submitted so far
    nPooled,          \* pooled mutations executed so far
    \* the readiness gate
    is_loop_ready,    \* self._is_loop_ready
    loop,             \* self.loop: "none", "created", "running"
    thread,           \* position of the worker thread in _run_event_loop
    clock,            \* time.time(), in ticks of the polling step
    gpc,              \* position of the caller thread inside connect() / stop()
    start_time,       \* wait_for_loop's local start_time
    polls,            \* time.sleep(0.1) calls of the current wait_for_loop
    ready_at_call,    \* the ready flag when the current connect() was called
    waited,           \* results of the wait_for_loop calls so far
    scheduled,        \* _connect coroutines handed to the loop
    errors,           \* error_occurred events emitted, in order
    nConnects,        \* connect() calls so far
    \* the bridge: pool, loop queue, operations, shutdown
    pool,             \* self.pool: "none", "open", "closed" (closed is still set)
    ready,            \* callbacks handed to the loop and not yet run, in order
    ops,              \* per slot: the operation scheduled through an entry point
    connecting,       \* _connect coroutines awaiting create_pool
    nConnected,       \* connected events emitted
    closePc,          \* position of the _close coroutine of the latest stop()
    stops,            \* stop() calls so far
    stop_start,       \* time.time() when the latest stop() began to wait
    stopRequested,    \* loop.stop handed to the loop by stop(), so far
    calling,          \* slot whose future the caller is attaching a callback to
    executing,        \* <<thread, coroutine>> pairs inside a coroutine step
    skipped,          \* entry-point calls that returned at the pool guard
    nCalls,           \* entry-point calls so far
    \* connections and what a pooled read observes
    session,          \* per slot: the connection behind the local variable conn
    poolInUse,        \* connections of the shared pool acquired and not released
    readPc,           \* position of the pooled read: "idle", "acquired"
    lastRead,         \* per slot: what the latest pooled read saw of its deletes
    \* the main window, which receives the manager's signals
    connectedSeen,    \* connected events on_database_connected has handled
    errorsSeen,       \* events of errors on_database_error has handled
    submitted,        \* tags of the operations the window handed to the loop, unfinished
    inbox,            \* completion events emitted and not yet handled, in order
    lastEvent,        \* the event handled last
    nRefresh,         \* refresh_all_data() calls so far
    nSubmitted,       \* operations the window handed to the loop so far
    nUser,            \* mutations the user started so far
    nInfo,            \* QMessageBox.information dialogs shown
    nCritical,        \* QMessageBox.critical dialogs shown
    \* the pool's connections, counted
    entered,          \* _execute_query calls that reached pool.acquire()
    waiting,          \* of these, calls waiting inside pool.acquire()
    ended             \* of these, calls that have returned

storeVars == <<collector, collection, catalog, collection_item, nextCollectionId>>
txVars == <<pc, kind, target, conn, collections, scanned, count, txDel, exc, result,
           log>>
histVars == <<before, interf, runs, nPooled>>
gateVars == <<is_loop_ready, loop, thread, clock, gpc, start_time, polls,
              ready_at_call, waited, scheduled, errors, nConnects>>
bridgeVars == <<pool, ready, ops, connecting, nConnected, closePc, stops, stop_start,
                stopRequested, calling, executing, skipped, nCalls>>
isoVars == <<session, poolInUse, readPc, lastRead>>
guiVars == <<connectedSeen, errorsSeen, submitted, inbox, lastEvent, nRefresh,
             nSubmitted, nUser, nInfo, nCritical>>
poolVars == <<entered, waiting, ended>>
vars == <<storeVars, txVars, histVars, gateVars, bridgeVars, isoVars, guiVars, poolVars>>

CollectorIds == 1..MaxId
CollectionIds == 1..MaxId
CatalogIds == 1..MaxId
\* One cascade-delete coroutine is in flight at a time; what runs beside it are
\* the pooled autocommit mutations.
Tx == {1}
Kinds == {"collector", "collection", "catalog"}

\* One operation scheduled through the entry points is pending at a time; the
\* coroutines that run beside it are _connect and _close.
Ops == {1}
\* The second argument of _on_data_loaded in the eight get_* entry points.
GetTags == {"collectors", "collections", "catalog", "statistics", "collection_types",
            "country_stats", "countries", "collection_types_list"}
\* The second argument of _on_modify_complete in the nine add_* / update_* /
\* delete_* entry points.
ModifyTags == {"collector_added", "collector_updated", "collector_deleted",
               "collection_added", "collection_updated", "collection_deleted",
               "catalog_item_added", "catalog_item_updated", "catalog_item_deleted"}
\* The entry points whose coroutine is a cascade delete.
CascadeTags == {"collector_deleted", "collection_deleted", "catalog_item_deleted"}
Tags == GetTags \cup ModifyTags
\* A slot no operation occupies.
FreeOp == [pc |-> "free", tag |-> "none", out |-> "none", res |-> "none",
           fail |-> "none", cb |-> FALSE, acq |-> 0, ran |-> <<>>, evs |-> <<>>]

\* ------------------------------------------------------------ connections
\* conn = None
NoConn == [kind |-> "none", autocommit |-> FALSE]
\* aiomysql.connect(..., autocommit=False): a connection of the coroutine's own
Dedicated == [kind |-> "dedicated", autocommit |-> FALSE]
\* aiomysql.create_pool(..., autocommit=True): a connection of self.pool
Pooled == [kind |-> "pool", autocommit |-> TRUE]
\* No pooled read has run since the slot's coroutine was submitted.
NotRead == [phase |-> "none", vis |-> "none"]

\* ------------------------------------------------------------------ store
NoDel == [items |-> {}, collections |-> {}, collectors |-> {}, catalogs |-> {}]

Store == [collector |-> collector, collection |-> collection,
          catalog |-> catalog, collection_item |-> collection_item]

\* The store at start: every collection k holds one item per catalog entry
\* i >= k, so the last collection has one item and the first has MaxId.
InitItems ==
    {[id |-> (k - 1) * MaxId + i, id_collection |-> k, id_catalog |-> i] :
        <<k, i>> \in {p \in CollectionIds \X CatalogIds : p[1] <= p[2]}}

RECURSIVE SortedSeq(_)
SortedSeq(S) ==
    IF S = {} THEN <<>>
    ELSE LET m == CHOOSE x \in S : \A y \in S : x <= y
         IN  <<m>> \o SortedSeq(S \ {m})

\* Rows locked by the open transactions of the other slots.
LockedBy(others) ==
    [items |-> UNION {txDel[u].items : u \in others},
     collections |-> UNION {txDel[u].collections : u \in others},
     collectors |-> UNION {txDel[u].collectors : u \in others},
     catalogs |-> UNION {txDel[u].catalogs : u \in others}]


\* Rows a statement of slot t can see or match: the committed rows the slot
\* has not itself deleted in its open transaction.
ItemsOfCollection(t, k) ==
    {r \in collection_item \ txDel[t].items : r.id_collection = k}

ItemsOfCatalog(t, i) ==
    {r \in collection_item \ txDel[t].items : r.id_catalog = i}

CollectionsOfAuthor(t, c) ==
    {r.id : r \in {x \in collection : x.author = c /\ x.id \notin txDel[t].collections}}

\* A DELETE waits for rows another open transaction has deleted (row locks):
\* it can complete only when none of the rows it matches is locked.
Unlocked(t, del) ==
    LET l == LockedBy(Tx \ {t})
    IN  /\ del.items \cap l.items = {}
        /\ del.collections \cap l.collections = {}
        /\ del.collectors \cap l.collectors = {}
        /\ del.catalogs \cap l.catalogs = {}

\* The statement log of the dedicated connection: what was issued, with which
\* key, whether it completed, and how many rows it deleted.
Logged(t, op, arg, ok, n) ==
    Append(log[t], [op |-> op, arg |-> arg, ok |-> ok, n |-> n, on |-> session[t]])

Rows(del) ==
    Cardinality(del.items) + Cardinality(del.collections)
        + Cardinality(del.collectors) + Cardinality(del.catalogs)

\* One `await cursor.execute(...)` inside the inner try of a cascade delete:
\* on success the rows `del` are deleted in the open transaction and the
\* coroutine goes on to `next`; an exception takes it to the inner except.
Execute(t, op, arg, ok, del, next) ==
    /\ log' = [log EXCEPT ![t] = Logged(t, op, arg, ok, IF ok THEN Rows(del) ELSE 0)]
    /\ IF ok
       THEN /\ Unlocked(t, del)
            /\ txDel' = [txDel EXCEPT ![t] =
                   [items |-> @.items \cup del.items,
                    collections |-> @.collections \cup del.collections,
                    collectors |-> @.collectors \cup del.collectors,
                    catalogs |-> @.catalogs \cup del.catalogs]]
            /\ pc' = [pc EXCEPT ![t] = next]
            /\ exc' = exc
       ELSE /\ txDel' = txDel
            /\ pc' = [pc EXCEPT ![t] = "rollback"]
            /\ exc' = [exc EXCEPT ![t] = op]

\* History: the operation `by` (0 for a pooled mutation) has committed a change
\* of the store; every other slot has been interfered with since its submission.
Interfered(by) == [u \in Tx |-> interf[u] \/ u # by]

\* ------------------------------------------------- entry points (bridge)
\* delete_collector / delete_collection / delete_catalog_item: the coroutine
\* is created with its argument and handed to the loop.
Submit(t, kd, id) ==
    /\ pc[t] \in {"idle", "done"}
    /\ runs < MaxRuns
    /\ runs' = runs + 1
    /\ pc' = [pc EXCEPT ![t] = "connect"]
    /\ kind' = [kind EXCEPT ![t] = kd]
    /\ target' = [target EXCEPT ![t] = id]
    /\ conn' = [conn EXCEPT ![t] = "none"]
    /\ collections' = [collections EXCEPT ![t] = <<>>]
    /\ scanned' = [scanned EXCEPT ![t] = {}]
    /\ count' = [count EXCEPT ![t] = -1]
    /\ txDel' = [txDel EXCEPT ![t] = NoDel]
    /\ exc' = [exc EXCEPT ![t] = "none"]
    /\ result' = [result EXCEPT ![t] = "none"]
    /\ log' = [log EXCEPT ![t] = <<>>]
    /\ before' = [before EXCEPT ![t] = Store]
    /\ interf' = [interf EXCEPT ![t] = FALSE]
    /\ session' = [session EXCEPT ![t] = NoConn]
    /\ lastRead' = [lastRead EXCEPT ![t] = NotRead]
    /\ UNCHANGED <<guiVars, poolVars, storeVars, nPooled, gateVars, bridgeVars, poolInUse, readPc>>

delete_collector(t, collector_id) == Submit(t, "collector", collector_id)

delete_collection(t, collection_id) == Submit(t, "collection", collection_id)

delete_catalog_item(t, item_id) == Submit(t, "catalog", item_id)

\* ------------------------------------------- steps shared by the coroutines
\* Mutant of Connect: the connection is opened with autocommit enabled.
Connect_autocommit(t, ok) ==
    /\ pc[t] = "connect"
    /\ log' = [log EXCEPT ![t] = Logged(t, "connect", 0, ok, 0)]
    /\ IF ok
       THEN /\ conn' = [conn EXCEPT ![t] = "open"]
            /\ session' = [session EXCEPT ![t] = [Dedicated EXCEPT !.autocommit = TRUE]]
            /\ pc' = [pc EXCEPT ![t] = "scan"]
            /\ UNCHANGED <<exc, result>>
       ELSE /\ conn' = conn
            /\ session' = session
            /\ pc' = [pc EXCEPT ![t] = "done"]
            /\ exc' = [exc EXCEPT ![t] = "connect"]
            /\ result' = [result EXCEPT ![t] = "raised"]
    /\ UNCHANGED <<guiVars, poolVars, storeVars, kind, target, collections, scanned, count, txDel, histVars,
                   gateVars, bridgeVars, poolInUse, readPc, lastRead>>

\* Mutant of Connect: the connection is acquired from the shared pool.
Connect_from_pool(t, ok) ==
    /\ pc[t] = "connect"
    /\ log' = [log EXCEPT ![t] = Logged(t, "connect", 0, ok, 0)]
    /\ IF ok
       THEN /\ conn' = [conn EXCEPT ![t] = "open"]
            /\ session' = [session EXCEPT ![t] = Pooled]
            /\ poolInUse' = poolInUse + 1
            /\ pc' = [pc EXCEPT ![t] = "scan"]
            /\ UNCHANGED <<exc, result>>
       ELSE /\ conn' = conn
            /\ session' = session
            /\ poolInUse' = poolInUse
            /\ pc' = [pc EXCEPT ![t] = "done"]
            /\ exc' = [exc EXCEPT ![t] = "connect"]
            /\ result' = [result EXCEPT ![t] = "raised"]
    /\ UNCHANGED <<guiVars, poolVars, storeVars, kind, target, collections, scanned, count, txDel, histVars,
                   gateVars, bridgeVars, readPc, lastRead>>

\* conn = await aiomysql.connect(..., autocommit=False).  When it raises,
\* conn is still None: the outer except logs and re-raises, and the finally
\* block closes nothing.
Connect(t, ok) ==
    /\ pc[t] = "connect"
    /\ log' = [log EXCEPT ![t] = Logged(t, "connect", 0, ok, 0)]
    /\ IF ok
       THEN /\ conn' = [conn EXCEPT ![t] = "open"]
            /\ session' = [session EXCEPT ![t] = Dedicated]
            /\ pc' = [pc EXCEPT ![t] = "scan"]
            /\ UNCHANGED <<exc, result>>
       ELSE /\ conn' = conn
            /\ session' = session
            /\ pc' = [pc EXCEPT ![t] = "done"]
            /\ exc' = [exc EXCEPT ![t] = "connect"]
            /\ result' = [result EXCEPT ![t] = "raised"]
    /\ UNCHANGED <<guiVars, poolVars, storeVars, kind, target, collections, scanned, count, txDel, histVars,
                   gateVars, bridgeVars, poolInUse, readPc, lastRead>>

\* The committed store once the transaction of slot t is applied to it.
Applied(t) ==
    [collector |-> collector \ txDel[t].collectors,
     collection |-> {r \in collection : r.id \notin txDel[t].collections},
     catalog |-> catalog \ txDel[t].catalogs,
     collection_item |-> collection_item \ txDel[t].items]

\* Mutant of Finally: conn.close() is the last line of the try block, not a
\* finally block, so an exception skips it.
Finally_close_in_try(t, e, l) ==
    /\ conn' = [conn EXCEPT ![t] = IF @ # "none" /\ e = "none" THEN "closed" ELSE @]
    /\ log' = [log EXCEPT ![t] =
                  IF conn[t] # "none" /\ e = "none"
                  THEN Append(l, [op |-> "close", arg |-> 0, ok |-> TRUE, n |-> 0,
                                  on |-> session[t]])
                  ELSE l]
    /\ txDel' = [txDel EXCEPT ![t] = NoDel]
    /\ collections' = [collections EXCEPT ![t] = <<>>]
    /\ exc' = [exc EXCEPT ![t] = e]
    /\ result' = [result EXCEPT ![t] = IF e = "none" THEN "True" ELSE "raised"]
    /\ pc' = [pc EXCEPT ![t] = "done"]

\* Mutant of Finally: a delete that removed no row returns False.
Finally_false_when_empty(t, e, l) ==
    /\ conn' = [conn EXCEPT ![t] = IF @ # "none" THEN "closed" ELSE @]
    /\ log' = [log EXCEPT ![t] =
                  IF conn[t] # "none"
                  THEN Append(l, [op |-> "close", arg |-> 0, ok |-> TRUE, n |-> 0,
                                  on |-> session[t]])
                  ELSE l]
    /\ txDel' = [txDel EXCEPT ![t] = NoDel]
    /\ collections' = [collections EXCEPT ![t] = <<>>]
    /\ exc' = [exc EXCEPT ![t] = e]
    /\ result' = [result EXCEPT ![t] =
                     IF e # "none" THEN "raised"
                     ELSE IF txDel[t] = NoDel THEN "False" ELSE "True"]
    /\ pc' = [pc EXCEPT ![t] = "done"]

\* finally: if conn: conn.close().  Nothing is awaited between the end of the
\* inner try (return True, or the exception leaving the inner except) and the
\* finally block, so the coroutine finishes in the same step.  The server
\* discards what an open transaction had deleted when its connection goes away.
Finally(t, e, l) ==
    /\ conn' = [conn EXCEPT ![t] = IF @ # "none" THEN "closed" ELSE @]
    /\ log' = [log EXCEPT ![t] =
                  IF conn[t] # "none"
                  THEN Append(l, [op |-> "close", arg |-> 0, ok |-> TRUE, n |-> 0,
                                  on |-> session[t]])
                  ELSE l]
    /\ txDel' = [txDel EXCEPT ![t] = NoDel]
    /\ collections' = [collections EXCEPT ![t] = <<>>]
    /\ exc' = [exc EXCEPT ![t] = e]
    /\ result' = [result EXCEPT ![t] = IF e = "none" THEN "True" ELSE "raised"]
    /\ pc' = [pc EXCEPT ![t] = "done"]

\* await conn.commit(); return True.  A commit that raises has applied
\* nothing and is handled by the inner except like a failed statement.
Commit(t, ok) ==
    /\ pc[t] = "commit"
    /\ IF ok
       THEN /\ collector' = Applied(t).collector
            /\ collection' = Applied(t).collection
            /\ catalog' = Applied(t).catalog
            /\ collection_item' = Applied(t).collection_item
            /\ interf' = IF txDel[t] = NoDel THEN interf ELSE Interfered(t)
            /\ Finally(t, "none", Logged(t, "commit", 0, TRUE, 0))
       ELSE /\ UNCHANGED <<collector, collection, catalog, collection_item, txDel, interf,
                           conn, collections, result>>
            /\ log' = [log EXCEPT ![t] = Logged(t, "commit", 0, FALSE, 0)]
            /\ pc' = [pc EXCEPT ![t] = "rollback"]
            /\ exc' = [exc EXCEPT ![t] = "commit"]
    /\ UNCHANGED <<guiVars, poolVars, nextCollectionId, kind, target, scanned, count, before, runs, nPooled,
                   gateVars, bridgeVars, isoVars>>

\* Mutant of Rollback: the except block commits what the transaction deleted.
Rollback_commits(t, ok) ==
    /\ pc[t] = "rollback"
    /\ collector' = Applied(t).collector
    /\ collection' = Applied(t).collection
    /\ catalog' = Applied(t).catalog
    /\ collection_item' = Applied(t).collection_item
    /\ Finally(t, IF ok THEN exc[t] ELSE "rollback", Logged(t, "rollback", 0, ok, 0))
    /\ UNCHANGED <<guiVars, poolVars, nextCollectionId, kind, target, scanned, count, histVars, gateVars, bridgeVars, isoVars>>

\* except Exception: await conn.rollback(); raise.  When the rollback itself
\* raises, that exception replaces the one being handled and the bare raise is
\* not reached.
Rollback(t, ok) ==
    /\ pc[t] = "rollback"
    /\ Finally(t, IF ok THEN exc[t] ELSE "rollback", Logged(t, "rollback", 0, ok, 0))
    /\ UNCHANGED <<guiVars, poolVars, storeVars, kind, target, scanned, count, histVars, gateVars, bridgeVars, isoVars>>

\* ------------------------------------------------------ _delete_collector
\* Mutant of _delete_collector_scan: the loop over the discovered collections
\* is skipped, the bulk delete of the collections comes first.
_delete_collector_scan_no_loop(t, ok) ==
    /\ pc[t] = "scan" /\ kind[t] = "collector"
    /\ LET ids == CollectionsOfAuthor(t, target[t])
       IN  /\ Execute(t, "scan", target[t], ok, NoDel, "bulk")
           /\ collections' = [collections EXCEPT ![t] = IF ok THEN SortedSeq(ids) ELSE @]
           /\ scanned' = [scanned EXCEPT ![t] = IF ok THEN ids ELSE @]
           /\ count' = [count EXCEPT ![t] = IF ok THEN Cardinality(ids) ELSE @]
    /\ UNCHANGED <<guiVars, poolVars, storeVars, kind, target, conn, result, histVars, gateVars, bridgeVars, isoVars>>

\* Mutant of _delete_collector_scan: a collector without collections goes
\* straight to the delete of its row.
_delete_collector_scan_skips_bulk(t, ok) ==
    /\ pc[t] = "scan" /\ kind[t] = "collector"
    /\ LET ids == CollectionsOfAuthor(t, target[t])
       IN  /\ Execute(t, "scan", target[t], ok, NoDel,
                      IF ids = {} THEN "target" ELSE "items")
           /\ collections' = [collections EXCEPT ![t] = IF ok THEN SortedSeq(ids) ELSE @]
           /\ scanned' = [scanned EXCEPT ![t] = IF ok THEN ids ELSE @]
           /\ count' = [count EXCEPT ![t] = IF ok THEN Cardinality(ids) ELSE @]
    /\ UNCHANGED <<guiVars, poolVars, storeVars, kind, target, conn, result, histVars,
                   gateVars, bridgeVars, isoVars>>

\* SELECT id FROM collection WHERE author = %s; collections = fetchall()
_delete_collector_scan(t, ok) ==
    /\ pc[t] = "scan" /\ kind[t] = "collector"
    /\ LET ids == CollectionsOfAuthor(t, target[t])
       IN  /\ Execute(t, "scan", target[t], ok, NoDel,
                      IF ids = {} THEN "bulk" ELSE "items")
           /\ collections' = [collections EXCEPT ![t] = IF ok THEN SortedSeq(ids) ELSE @]
           /\ scanned' = [scanned EXCEPT ![t] = IF ok THEN ids ELSE @]
           /\ count' = [count EXCEPT ![t] = IF ok THEN Cardinality(ids) ELSE @]
    /\ UNCHANGED <<guiVars, poolVars, storeVars, kind, target, conn, result, histVars, gateVars, bridgeVars, isoVars>>

\* Mutant of _delete_collector_items: the DELETE is keyed by collector_id.
_delete_collector_items_by_collector(t, ok) ==
    /\ pc[t] = "items" /\ kind[t] = "collector"
    /\ LET collection_id == Head(collections[t])
           rest == Tail(collections[t])
       IN  /\ Execute(t, "delete_items", collection_id, ok,
                      [NoDel EXCEPT !.items = ItemsOfCollection(t, target[t])],
                      IF rest = <<>> THEN "bulk" ELSE "items")
           /\ collections' = [collections EXCEPT ![t] = IF ok THEN rest ELSE @]
    /\ UNCHANGED <<guiVars, poolVars, storeVars, kind, target, conn, scanned, count, result, histVars,
                   gateVars, bridgeVars, isoVars>>

\* for collection in collections:
\*     DELETE FROM collection_item WHERE id_collection = collection['id']
_delete_collector_items(t, ok) ==
    /\ pc[t] = "items" /\ kind[t] = "collector"
    /\ LET collection_id == Head(collections[t])
           rest == Tail(collections[t])
       IN  /\ Execute(t, "delete_items", collection_id, ok,
                      [NoDel EXCEPT !.items = ItemsOfCollection(t, collection_id)],
                      IF rest = <<>> THEN "bulk" ELSE "items")
           /\ collections' = [collections EXCEPT ![t] = IF ok THEN rest ELSE @]
    /\ UNCHANGED <<guiVars, poolVars, storeVars, kind, target, conn, scanned, count, result, histVars,
                   gateVars, bridgeVars, isoVars>>

\* DELETE FROM collection WHERE author = %s
_delete_collector_collections(t, ok) ==
    /\ pc[t] = "bulk" /\ kind[t] = "collector"
    /\ Execute(t, "delete_collections", target[t], ok,
               [NoDel EXCEPT !.collections = CollectionsOfAuthor(t, target[t])],
               "target")
    /\ UNCHANGED <<guiVars, poolVars, storeVars, kind, target, conn, collections, scanned, count, result,
                   histVars, gateVars, bridgeVars, isoVars>>

\* DELETE FROM collector WHERE id = %s
_delete_collector_target(t, ok) ==
    /\ pc[t] = "target" /\ kind[t] = "collector"
    /\ Execute(t, "delete_target", target[t], ok,
               [NoDel EXCEPT !.collectors = {target[t]} \cap collector],
               "commit")
    /\ UNCHANGED <<guiVars, poolVars, storeVars, kind, target, conn, collections, scanned, count, result,
                   histVars, gateVars, bridgeVars, isoVars>>

\* ----------------------------------------------------- _delete_collection
\* Mutant of DependencyDeleteNeeded: the test is count >= 0.
DependencyDeleteAlways(n) == n >= 0

\* if result and result['count'] > 0: the optional DependencyDelete
DependencyDeleteNeeded(n) == n > 0

\* SELECT COUNT(*) as count FROM collection_item WHERE id_collection = %s
_delete_collection_scan(t, ok) ==
    /\ pc[t] = "scan" /\ kind[t] = "collection"
    /\ LET n == Cardinality(ItemsOfCollection(t, target[t]))
       IN  /\ Execute(t, "scan", target[t], ok, NoDel,
                      IF DependencyDeleteNeeded(n) THEN "items" ELSE "target")
           /\ count' = [count EXCEPT ![t] = IF ok THEN n ELSE @]
    /\ UNCHANGED <<guiVars, poolVars, storeVars, kind, target, conn, collections, scanned, result,
                   histVars, gateVars, bridgeVars, isoVars>>

\* DELETE FROM collection_item WHERE id_collection = %s
_delete_collection_items(t, ok) ==
    /\ pc[t] = "items" /\ kind[t] = "collection"
    /\ Execute(t, "delete_items", target[t], ok,
               [NoDel EXCEPT !.items = ItemsOfCollection(t, target[t])],
               "target")
    /\ UNCHANGED <<guiVars, poolVars, storeVars, kind, target, conn, collections, scanned, count, result,
                   histVars, gateVars, bridgeVars, isoVars>>

\* DELETE FROM collection WHERE id = %s
_delete_collection_target(t, ok) ==
    /\ pc[t] = "target" /\ kind[t] = "collection"
    /\ Execute(t, "delete_target", target[t], ok,
               [NoDel EXCEPT !.collections =
                    {r.id : r \in {x \in collection : x.id = target[t]}}],
               "commit")
    /\ UNCHANGED <<guiVars, poolVars, storeVars, kind, target, conn, collections, scanned, count, result,
                   histVars, gateVars, bridgeVars, isoVars>>

\* --------------------------------------------------- _delete_catalog_item
\* SELECT COUNT(*) as count FROM collection_item WHERE id_catalog = %s
_delete_catalog_item_scan(t, ok) ==
    /\ pc[t] = "scan" /\ kind[t] = "catalog"
    /\ LET n == Cardinality(ItemsOfCatalog(t, target[t]))
       IN  /\ Execute(t, "scan", target[t], ok, NoDel,
                      IF DependencyDeleteNeeded(n) THEN "items" ELSE "target")
           /\ count' = [count EXCEPT ![t] = IF ok THEN n ELSE @]
    /\ UNCHANGED <<guiVars, poolVars, storeVars, kind, target, conn, collections, scanned, result,
                   histVars, gateVars, bridgeVars, isoVars>>

\* Mutant of _delete_catalog_item_links: the DELETE is keyed by id_collection.
_delete_catalog_item_links_by_collection(t, ok) ==
    /\ pc[t] = "items" /\ kind[t] = "catalog"
    /\ Execute(t, "delete_items", target[t], ok,
               [NoDel EXCEPT !.items = ItemsOfCollection(t, target[t])],
               "target")
    /\ UNCHANGED <<guiVars, poolVars, storeVars, kind, target, conn, collections, scanned, count, result,
                   histVars, gateVars, bridgeVars, isoVars>>

\* DELETE FROM collection_item WHERE id_catalog = %s
_delete_catalog_item_links(t, ok) ==
    /\ pc[t] = "items" /\ kind[t] = "catalog"
    /\ Execute(t, "delete_items", target[t], ok,
               [NoDel EXCEPT !.items = ItemsOfCatalog(t, target[t])],
               "target")
    /\ UNCHANGED <<guiVars, poolVars, storeVars, kind, target, conn, collections, scanned, count, result,
                   histVars, gateVars, bridgeVars, isoVars>>

\* DELETE FROM catalog WHERE id = %s
_delete_catalog_item_target(t, ok) ==
    /\ pc[t] = "target" /\ kind[t] = "catalog"
    /\ Execute(t, "delete_target", target[t], ok,
               [NoDel EXCEPT !.catalogs = {target[t]} \cap catalog],
               "commit")
    /\ UNCHANGED <<guiVars, poolVars, storeVars, kind, target, conn, collections, scanned, count, result,
                   histVars, gateVars, bridgeVars, isoVars>>

\* ------------------------------------- pooled autocommit mutations (Execute)
\* _add_collection: INSERT INTO collection (..., author, ...) through
\* _execute_query on a pooled autocommit connection; data['author'] is the
\* text the user typed.  A failed statement is swallowed (returns None).
_add_collection(author, ok) ==
    /\ nPooled < MaxPooled
    /\ IF ok
       THEN /\ collection' = collection \cup {[id |-> nextCollectionId, author |-> author]}
            /\ nextCollectionId' = nextCollectionId + 1
            /\ nPooled' = nPooled + 1
            /\ interf' = Interfered(0)
       ELSE UNCHANGED <<collection, nextCollectionId, nPooled, interf>>
    /\ UNCHANGED <<guiVars, poolVars, collector, catalog, collection_item, txVars, before, runs, gateVars, bridgeVars, isoVars>>

\* _update_collection: UPDATE collection SET ..., author=%s, ... WHERE id=%s.
\* It waits for a row an open transaction has deleted.
_update_collection(collection_id, author, ok) ==
    /\ nPooled < MaxPooled
    /\ IF ok
       THEN /\ collection_id \notin LockedBy(Tx).collections
            /\ collection' = {IF r.id = collection_id
                              THEN [r EXCEPT !.author = author] ELSE r : r \in collection}
            /\ nPooled' = IF collection' = collection THEN nPooled ELSE nPooled + 1
            /\ interf' = IF collection' = collection THEN interf ELSE Interfered(0)
       ELSE UNCHANGED <<collection, nPooled, interf>>
    /\ UNCHANGED <<guiVars, poolVars, collector, catalog, collection_item, nextCollectionId, txVars, before,
                   runs, gateVars, bridgeVars, isoVars>>

\* ------------------------------------------------------------ behaviours
\* Who owns the collections at start: collector 1 owns them all and the other
\* collectors own none.
InitAuthors == {[k \in CollectionIds |-> 1]}

InitStore ==
    /\ collector = CollectorIds
    /\ catalog = CatalogIds
    /\ \E a \in InitAuthors :
          collection = {[id |-> k, author |-> a[k]] : k \in CollectionIds}
    /\ collection_item = InitItems
    /\ nextCollectionId = MaxId + 1

InitTx ==
    /\ pc = [t \in Tx |-> "idle"]
    /\ kind = [t \in Tx |-> "collector"]
    /\ target = [t \in Tx |-> 1]
    /\ conn = [t \in Tx |-> "none"]
    /\ collections = [t \in Tx |-> <<>>]
    /\ scanned = [t \in Tx |-> {}]
    /\ count = [t \in Tx |-> -1]
    /\ txDel = [t \in Tx |-> NoDel]
    /\ exc = [t \in Tx |-> "none"]
    /\ result = [t \in Tx |-> "none"]
    /\ log = [t \in Tx |-> <<>>]
    /\ before = [t \in Tx |-> Store]
    /\ interf = [t \in Tx |-> FALSE]
    /\ runs = 0
    /\ nPooled = 0

InitGate ==
    /\ is_loop_ready = FALSE
    /\ loop = "none"
    /\ thread = "none"
    /\ clock = 0
    /\ gpc = "idle"
    /\ start_time = 0
    /\ polls = 0
    /\ ready_at_call = FALSE
    /\ waited = <<>>
    /\ scheduled = 0
    /\ errors = <<>>
    /\ nConnects = 0

\* __init__: self.pool = None; nothing is scheduled.
InitBridge ==
    /\ pool = "none"
    /\ ready = <<>>
    /\ ops = [o \in Ops |-> FreeOp]
    /\ connecting = 0
    /\ nConnected = 0
    /\ closePc = "none"
    /\ stops = 0
    /\ stop_start = 0
    /\ stopRequested = 0
    /\ calling = 0
    /\ executing = {}
    /\ skipped = 0
    /\ nCalls = 0

InitIso ==
    /\ session = [t \in Tx |-> NoConn]
    /\ poolInUse = 0
    /\ readPc = "idle"
    /\ lastRead = [t \in Tx |-> NotRead]

\* No event delivered to the window, no dialog shown.
NoEvent == [sig |-> "none", tag |-> "none", text |-> "none"]

InitGui ==
    /\ connectedSeen = 0
    /\ errorsSeen = 0
    /\ submitted = <<>>
    /\ inbox = <<>>
    /\ lastEvent = NoEvent
    /\ nRefresh = 0
    /\ nSubmitted = 0
    /\ nUser = 0
    /\ nInfo = 0
    /\ nCritical = 0

InitPool ==
    /\ entered = 0
    /\ waiting = 0
    /\ ended = 0

Init == InitStore /\ InitTx /\ InitGate /\ InitBridge /\ InitIso /\ InitGui /\ InitPool

Next ==
    \/ \E t \in Tx, id \in 1..MaxId :
          \/ delete_collector(t, id)
          \/ delete_collection(t, id)
          \/ delete_catalog_item(t, id)
    \/ \E t \in Tx, ok \in BOOLEAN :
          \/ Connect(t, ok)
          \/ _delete_collector_scan(t, ok)
          \/ _delete_collector_items(t, ok)
          \/ _delete_collector_collections(t, ok)
          \/ _delete_collector_target(t, ok)
          \/ _delete_collection_scan(t, ok)
          \/ _delete_collection_items(t, ok)
          \/ _delete_collection_target(t, ok)
          \/ _delete_catalog_item_scan(t, ok)
          \/ _delete_catalog_item_links(t, ok)
          \/ _delete_catalog_item_target(t, ok)
          \/ Commit(t, ok)
          \/ Rollback(t, ok)
    \/ \E author \in CollectorIds, ok \in BOOLEAN : _add_collection(author, ok)
    \/ \E collection_id \in CollectionIds, author \in CollectorIds, ok \in BOOLEAN :
          _update_collection(collection_id, author, ok)

Spec == Init /\ [][Next]_vars


\* ------------------------------------------------------- the readiness gate
\* start(): the worker thread is created and started (the caller starts it
\* once; ui.py calls start() from the window's constructor).
start ==
    /\ thread = "none"
    /\ thread' = "new_loop"
    /\ UNCHANGED <<guiVars, poolVars, storeVars, txVars, histVars, isoVars, bridgeVars, is_loop_ready, loop, clock, gpc,
                   start_time, polls, ready_at_call, waited, scheduled, errors, nConnects>>

\* _run_event_loop, on the worker thread: self.loop = asyncio.new_event_loop().
\* An exception is logged and emitted as an error event, and the thread ends.
_run_event_loop_new(ok) ==
    /\ thread = "new_loop"
    /\ IF ok
       THEN /\ loop' = "created"
            /\ thread' = "set_ready"
            /\ errors' = errors
       ELSE /\ loop' = loop
            /\ thread' = "exited"
            /\ errors' = Append(errors, "loop_error")
    /\ UNCHANGED <<guiVars, poolVars, storeVars, txVars, histVars, isoVars, bridgeVars, is_loop_ready, clock, gpc, start_time,
                   polls, ready_at_call, waited, scheduled, nConnects>>

\* asyncio.set_event_loop(self.loop); self._is_loop_ready = True
_run_event_loop_ready ==
    /\ thread = "set_ready"
    /\ is_loop_ready' = TRUE
    /\ thread' = "run_forever"
    /\ UNCHANGED <<guiVars, poolVars, storeVars, txVars, histVars, isoVars, bridgeVars, loop, clock, gpc, start_time, polls,
                   ready_at_call, waited, scheduled, errors, nConnects>>

\* self.loop.run_forever()
_run_event_loop_run ==
    /\ thread = "run_forever"
    /\ loop' = "running"
    /\ thread' = "running"
    /\ UNCHANGED <<guiVars, poolVars, storeVars, txVars, histVars, isoVars, bridgeVars, is_loop_ready, clock, gpc, start_time,
                   polls, ready_at_call, waited, scheduled, errors, nConnects>>

\* connect() calls wait_for_loop(): start_time = time.time()
connect_call ==
    /\ gpc = "idle"
    /\ nConnects < MaxConnects
    /\ nConnects' = nConnects + 1
    /\ start_time' = clock
    /\ polls' = 0
    /\ ready_at_call' = is_loop_ready
    /\ gpc' = "while"
    /\ UNCHANGED <<guiVars, poolVars, storeVars, txVars, histVars, isoVars, bridgeVars, is_loop_ready, loop, thread, clock,
                   waited, scheduled, errors>>

\* Mutant of KeepWaiting: the elapsed time is compared with <=.
KeepWaiting_inclusive == ~is_loop_ready /\ clock - start_time <= TimeoutTicks

\* while not self._is_loop_ready and time.time() - start_time < timeout
KeepWaiting == ~is_loop_ready /\ clock - start_time < TimeoutTicks

wait_for_loop_while ==
    /\ gpc = "while"
    /\ gpc' = IF KeepWaiting THEN "sleep" ELSE "return"
    /\ UNCHANGED <<guiVars, poolVars, storeVars, txVars, histVars, isoVars, bridgeVars, is_loop_ready, loop, thread, clock,
                   start_time, polls, ready_at_call, waited, scheduled, errors, nConnects>>

\* time.sleep(0.1)
wait_for_loop_sleep ==
    /\ gpc = "sleep"
    /\ clock' = clock + SleepTicks
    /\ polls' = polls + 1
    /\ gpc' = "while"
    /\ UNCHANGED <<guiVars, poolVars, storeVars, txVars, histVars, isoVars, bridgeVars, is_loop_ready, loop, thread, start_time,
                   ready_at_call, waited, scheduled, errors, nConnects>>

\* return self._is_loop_ready, and connect() acts on it: the _connect coroutine
\* is handed to the loop, or the error event "Event loop не запущен" is emitted.
connect_return ==
    /\ gpc = "return"
    /\ waited' = Append(waited, is_loop_ready)
    /\ IF is_loop_ready
       THEN /\ scheduled' = scheduled + 1
            /\ ready' = Append(ready, [k |-> "connect", o |-> 0])
            /\ errors' = errors
       ELSE /\ scheduled' = scheduled
            /\ ready' = ready
            /\ errors' = Append(errors, "loop_not_started")
    /\ gpc' = "idle"
    /\ UNCHANGED <<guiVars, poolVars, storeVars, txVars, histVars, isoVars, is_loop_ready, loop, thread, clock,
                   start_time, polls, ready_at_call, nConnects, pool, ops, connecting,
                   nConnected, closePc, stops, stop_start, stopRequested, calling,
                   executing, skipped, nCalls>>

NextGate ==
    \/ start
    \/ \E ok \in BOOLEAN : _run_event_loop_new(ok)
    \/ _run_event_loop_ready
    \/ _run_event_loop_run
    \/ connect_call
    \/ wait_for_loop_while
    \/ wait_for_loop_sleep
    \/ connect_return

SpecGate == Init /\ [][NextGate]_vars


\* ------------------------------------------------------------- the bridge
\* Gate variables no bridge action writes.
waitVars == <<is_loop_ready, start_time, polls, ready_at_call, waited, scheduled,
              nConnects>>

\* Pooled connections in use: one per _execute_query inside pool.acquire().
InUse == Cardinality({o \in Ops : ops[o].pc = "held"})

\* The loop runs one callback or coroutine step at a time, on the worker
\* thread, while run_forever() has not returned.
WorkerFree == thread = "running" /\ loop = "running" /\ executing = {}

\* Mutant of Run: the step runs on the thread that called the entry point.
Run_on_caller(c) == executing' = executing \cup {<<"caller", c>>}

\* Mutant of is_running: stop() tests only that the loop object exists.
is_running_or_created == loop \in {"created", "running", "stopping"}

\* self.loop.is_running(): run_forever() has been entered and not left.
is_running == loop \in {"running", "stopping"}

\* The loop takes the next callback from its queue: while it runs, and, once
\* loop.stop has run, for what its current iteration had already collected.
LoopTakes(k) ==
    /\ thread = "running" /\ is_running /\ executing = {}
    /\ ready # <<>> /\ Head(ready).k = k
    /\ ready' = Tail(ready)

\* The worker thread is inside a step of coroutine c until the step's await.
Run(c) == executing' = executing \cup {<<"worker", c>>}

\* The coroutine step has reached its await (or its end): the loop is free.
loop_step_end ==
    /\ executing # {}
    /\ executing' = {}
    /\ UNCHANGED <<guiVars, poolVars, storeVars, txVars, histVars, isoVars, gateVars, pool, ready, ops, connecting,
                   nConnected, closePc, stops, stop_start, stopRequested, calling,
                   skipped, nCalls>>

\* Mutant of NotPool: the entry points have no guard.
NotPool_never == FALSE

\* if not self.pool: return
NotPool == pool = "none"

\* Mutant of OnComplete: the callback has no except branch.
OnComplete_result_only(op) ==
    IF op.tag \notin Tags \/ op.out # "returned" THEN <<>>
    ELSE <<[sig |-> "data_loaded", tag |-> op.tag, text |-> op.res]>>

\* _on_data_loaded / _on_modify_complete: future.result() returned, so
\* data_loaded(tag, result) is emitted; it raised, so error_occurred with the
\* tag and the exception text is emitted.  The exporter's own callback emits
\* no event of the manager.
OnComplete(op) ==
    IF op.tag \notin Tags THEN <<>>
    ELSE IF op.out = "returned"
         THEN <<[sig |-> "data_loaded", tag |-> op.tag, text |-> op.res]>>
         ELSE <<[sig |-> "error_occurred", tag |-> op.tag, text |-> op.res]>>

\* The coroutine of the operation in slot o ends with res: the future is done,
\* and a callback already attached runs now, on the worker thread.
FinishFrom(o, from, res) ==
    LET out == IF res = "exception" THEN "raised" ELSE "returned"
        op == [from EXCEPT !.pc = "done", !.out = out, !.res = res]
    IN  ops' = [ops EXCEPT ![o] =
                   [op EXCEPT !.evs = IF op.cb THEN @ \o OnComplete(op) ELSE @,
                              !.ran = IF op.cb THEN Append(@, "worker") ELSE @]]

Finish(o, res) == FinishFrom(o, ops[o], res)

\* A slot is free for a new operation once its event has been delivered.
Reusable(o) == ops[o].pc = "free" \/ (ops[o].pc = "done" /\ ops[o].cb)

FreeSlot == CHOOSE o \in Ops : Reusable(o) /\ \A u \in Ops : Reusable(u) => o <= u

\* future = asyncio.run_coroutine_threadsafe(coroutine, self.loop)
Schedule(tag) ==
    /\ \E o \in Ops : Reusable(o)
    /\ ops' = [ops EXCEPT ![FreeSlot] = [FreeOp EXCEPT !.pc = "queued", !.tag = tag]]
    /\ ready' = Append(ready, [k |-> "op", o |-> FreeSlot])
    /\ calling' = FreeSlot
    /\ gpc' = "add_done_callback"

\* One of the 17 entry points get_* / add_* / update_* / delete_*: the guard,
\* then run_coroutine_threadsafe.
EntryPoint(tag) ==
    /\ gpc = "idle"
    /\ nCalls < MaxCalls
    /\ nCalls' = nCalls + 1
    /\ IF NotPool
       THEN /\ skipped' = skipped + 1
            /\ UNCHANGED <<ready, ops, calling, gpc>>
       ELSE /\ Schedule(tag)
            /\ skipped' = skipped
    /\ UNCHANGED <<guiVars, poolVars, storeVars, txVars, histVars, isoVars, waitVars, loop, thread, clock, errors,
                   pool, connecting, nConnected, closePc, stops, stop_start,
                   stopRequested, executing>>

\* ExcelExporter.create_excel_report: _create_report, which awaits the _get_*
\* coroutines of the manager, is handed to the manager's loop when the loop
\* runs, whatever the pool is.  When the loop does not run the exporter emits
\* its own error signal and the manager is not touched.
create_excel_report ==
    /\ gpc = "idle"
    /\ nCalls < MaxCalls
    /\ nCalls' = nCalls + 1
    /\ is_running
    /\ Schedule("excel_report")
    /\ UNCHANGED <<guiVars, poolVars, storeVars, txVars, histVars, isoVars, waitVars, loop, thread, clock, errors,
                   pool, connecting, nConnected, closePc, stops, stop_start,
                   stopRequested, executing, skipped>>

\* Mutant of Attach: a future that is done already never runs the callback.
Attach_lost(op) == [op EXCEPT !.cb = TRUE]

\* The callback is attached to the future; a future that is done already
\* runs it at once, on the thread that attaches it.
Attach(op) ==
    LET at == [op EXCEPT !.cb = TRUE]
    IN  [at EXCEPT !.evs = IF at.pc = "done" THEN @ \o OnComplete(at) ELSE @,
                   !.ran = IF at.pc = "done" THEN Append(@, "caller") ELSE @]

\* future.add_done_callback(...), on the caller thread.
add_done_callback ==
    /\ gpc = "add_done_callback"
    /\ ops' = [ops EXCEPT ![calling] = Attach(ops[calling])]
    /\ calling' = 0
    /\ gpc' = "idle"
    /\ UNCHANGED <<guiVars, poolVars, storeVars, txVars, histVars, isoVars, waitVars, loop, thread, clock, errors,
                   pool, ready, connecting, nConnected, closePc, stops, stop_start,
                   stopRequested, executing, skipped, nCalls>>

\* The loop takes the next callback: the first step of _connect, up to
\* await aiomysql.create_pool(...).
_connect_create_pool ==
    /\ LoopTakes("connect")
    /\ connecting' = connecting + 1
    /\ Run("_connect")
    /\ UNCHANGED <<guiVars, poolVars, storeVars, txVars, histVars, isoVars, gateVars, pool, ops, nConnected, closePc,
                   stops, stop_start, stopRequested, calling, skipped, nCalls>>

\* Mutant of _connect: connected is emitted before create_pool is awaited.
_connect_emits_first(ok) ==
    /\ WorkerFree
    /\ connecting > 0
    /\ connecting' = connecting - 1
    /\ nConnected' = nConnected + 1
    /\ pool' = IF ok THEN "open" ELSE pool
    /\ errors' = IF ok THEN errors ELSE Append(errors, "connect_failed")
    /\ Run("_connect")
    /\ UNCHANGED <<guiVars, poolVars, storeVars, txVars, histVars, isoVars, waitVars, loop, thread, clock, gpc,
                   ready, ops, closePc, stops, stop_start, stopRequested, calling,
                   skipped, nCalls>>

\* create_pool returned: self.pool is set and connected is emitted; it raised:
\* the exception is emitted as an error event and _connect returns False.
_connect(ok) ==
    /\ WorkerFree
    /\ connecting > 0
    /\ connecting' = connecting - 1
    /\ IF ok
       THEN /\ pool' = "open"
            /\ nConnected' = nConnected + 1
            /\ errors' = errors
       ELSE /\ pool' = pool
            /\ nConnected' = nConnected
            /\ errors' = Append(errors, "connect_failed")
    /\ Run("_connect")
    /\ UNCHANGED <<guiVars, poolVars, storeVars, txVars, histVars, isoVars, waitVars, loop, thread, clock, gpc,
                   ready, ops, closePc, stops, stop_start, stopRequested, calling,
                   skipped, nCalls>>

\* Mutant of ExecuteQueryResult: no except clause around the statement.
ExecuteQueryResult_raises(outcome) == IF outcome = "ok" THEN "rows" ELSE "exception"

\* _execute_query: a successful statement returns fetchall() or lastrowid;
\* except Exception logs and returns None, wherever the exception came from.
ExecuteQueryResult(outcome) == IF outcome = "ok" THEN "rows" ELSE "null"

\* if not self.pool: return None
PoolUnset == pool = "none"

\* The first step of a pooled operation, up to the await inside
\* pool.acquire(): _execute_query returns None at once when the pool is not
\* set; acquire raises on a closed pool or a lost server.
_execute_query_acquire(o, ok) ==
    /\ LoopTakes("op") /\ Head(ready).o = o
    /\ ops[o].tag \notin CascadeTags
    /\ IF PoolUnset
       THEN Finish(o, "null")
       ELSE IF ok /\ pool = "open"
            THEN ops' = [ops EXCEPT ![o].pc = "held", ![o].acq = @ + 1]
            ELSE FinishFrom(o, [ops[o] EXCEPT !.acq = @ + 1, !.fail = "acquire"],
                            ExecuteQueryResult("acquire"))
    /\ Run("operation")
    /\ UNCHANGED <<guiVars, poolVars, storeVars, txVars, histVars, isoVars, gateVars, pool, connecting, nConnected,
                   closePc, stops, stop_start, stopRequested, calling, skipped, nCalls>>

\* Mutant of _execute_query: a failed statement puts the operation back on
\* the loop's queue.
_execute_query_retries(o, outcome) ==
    /\ WorkerFree
    /\ ops[o].pc = "held"
    /\ outcome = "fetch" => ops[o].tag \notin ModifyTags
    /\ IF outcome = "ok"
       THEN /\ FinishFrom(o, [ops[o] EXCEPT !.fail = outcome], ExecuteQueryResult(outcome))
            /\ ready' = ready
       ELSE /\ ops' = [ops EXCEPT ![o].pc = "queued", ![o].fail = outcome]
            /\ ready' = Append(ready, [k |-> "op", o |-> o])
    /\ Run("operation")
    /\ UNCHANGED <<guiVars, poolVars, storeVars, txVars, histVars, isoVars, gateVars, pool, connecting,
                   nConnected, closePc, stops, stop_start, stopRequested, calling,
                   skipped, nCalls>>

\* conn.cursor(), cursor.execute(query, params), and fetchall() for a SELECT:
\* any of them may raise; the connection goes back to the pool either way.
_execute_query(o, outcome) ==
    /\ WorkerFree
    /\ ops[o].pc = "held"
    /\ outcome = "fetch" => ops[o].tag \notin ModifyTags
    /\ FinishFrom(o, [ops[o] EXCEPT !.fail = outcome], ExecuteQueryResult(outcome))
    /\ Run("operation")
    /\ UNCHANGED <<guiVars, poolVars, storeVars, txVars, histVars, isoVars, gateVars, pool, ready, connecting,
                   nConnected, closePc, stops, stop_start, stopRequested, calling,
                   skipped, nCalls>>

\* The first step of a cascade delete, up to await aiomysql.connect(...): the
\* coroutine is in flight on its own connection.
_delete_await(o) ==
    /\ LoopTakes("op") /\ Head(ready).o = o
    /\ ops[o].tag \in CascadeTags
    /\ ops' = [ops EXCEPT ![o].pc = "tx"]
    /\ Run("operation")
    /\ UNCHANGED <<guiVars, poolVars, storeVars, txVars, histVars, isoVars, gateVars, pool, connecting, nConnected,
                   closePc, stops, stop_start, stopRequested, calling, skipped, nCalls>>

\* The cascade delete ends: return True after commit, or the exception
\* re-raised after the rollback (or raised by connect).
_delete_return(o, ok) ==
    /\ WorkerFree
    /\ ops[o].pc = "tx"
    /\ Finish(o, IF ok THEN "True" ELSE "exception")
    /\ Run("operation")
    /\ UNCHANGED <<guiVars, poolVars, storeVars, txVars, histVars, isoVars, gateVars, pool, ready, connecting,
                   nConnected, closePc, stops, stop_start, stopRequested, calling,
                   skipped, nCalls>>

\* stop(): if self.loop and self.loop.is_running(), _close is handed to the
\* loop and the caller waits for its future; otherwise stop() does nothing.
stop_call ==
    /\ gpc = "idle"
    /\ stops < MaxStops
    /\ stops' = stops + 1
    /\ IF is_running
       THEN /\ ready' = Append(ready, [k |-> "close", o |-> stops + 1])
            /\ closePc' = "queued"
            /\ stop_start' = clock
            /\ gpc' = "stop_wait"
       ELSE UNCHANGED <<ready, closePc, stop_start, gpc>>
    /\ UNCHANGED <<guiVars, poolVars, storeVars, txVars, histVars, isoVars, waitVars, loop, thread, clock, errors,
                   pool, ops, connecting, nConnected, stopRequested, calling, executing,
                   skipped, nCalls>>

\* Mutant of _close: self.pool = None after the pool is closed.
_close_unsets_pool(n, ok) ==
    /\ LoopTakes("close") /\ Head(ready).o = n
    /\ pool' = "none"
    /\ closePc' = IF n # stops THEN closePc
                  ELSE IF pool = "none" THEN "done"
                  ELSE IF ok THEN "wait_closed" ELSE "raised"
    /\ Run("_close")
    /\ UNCHANGED <<guiVars, poolVars, storeVars, txVars, histVars, isoVars, gateVars, ops,
                   connecting, nConnected, stops, stop_start, stopRequested, calling,
                   skipped, nCalls>>

\* The first step of _close: nothing to do without a pool; otherwise
\* self.pool.close(), then await self.pool.wait_closed().  A _close left
\* behind by an earlier stop() that timed out closes the pool all the same.
_close(n, ok) ==
    /\ LoopTakes("close") /\ Head(ready).o = n
    /\ pool' = IF pool = "none" THEN "none" ELSE "closed"
    /\ closePc' = IF n # stops THEN closePc
                  ELSE IF pool = "none" THEN "done"
                  ELSE IF ok THEN "wait_closed" ELSE "raised"
    /\ Run("_close")
    /\ UNCHANGED <<guiVars, poolVars, storeVars, txVars, histVars, isoVars, gateVars, ops, connecting, nConnected,
                   stops, stop_start, stopRequested, calling, skipped, nCalls>>

\* wait_closed() returns once every pooled connection has been released.
_close_wait_closed(ok) ==
    /\ WorkerFree
    /\ closePc = "wait_closed"
    /\ InUse = 0
    /\ closePc' = IF ok THEN "done" ELSE "raised"
    /\ Run("_close")
    /\ UNCHANGED <<guiVars, poolVars, storeVars, txVars, histVars, isoVars, gateVars, pool, ready, ops, connecting,
                   nConnected, stops, stop_start, stopRequested, calling, skipped,
                   nCalls>>

\* Mutant of stop_result: stop() clears the ready flag.
stop_result_clears_ready(outcome) ==
    /\ gpc = "stop_wait"
    /\ IF outcome = "timeout"
       THEN /\ closePc \notin {"done", "raised"}
            /\ clock' = stop_start + StopTimeoutTicks
       ELSE /\ closePc \in {"done", "raised"}
            /\ clock' = clock
    /\ ready' = Append(ready, [k |-> "stop", o |-> 0])
    /\ stopRequested' = stopRequested + 1
    /\ is_loop_ready' = FALSE
    /\ gpc' = "idle"
    /\ UNCHANGED <<guiVars, poolVars, storeVars, txVars, histVars, isoVars, start_time, polls,
                   ready_at_call, waited, scheduled, nConnects, loop, thread, errors,
                   pool, ops, connecting, nConnected, closePc, stops, stop_start,
                   calling, executing, skipped, nCalls>>

\* Mutant of stop_result: loop.stop is requested after result() inside the
\* try block, not in the finally block.
stop_result_in_try(outcome) ==
    /\ gpc = "stop_wait"
    /\ IF outcome = "timeout"
       THEN /\ closePc \notin {"done", "raised"}
            /\ clock' = stop_start + StopTimeoutTicks
       ELSE /\ closePc \in {"done", "raised"}
            /\ clock' = clock
    /\ IF closePc = "done"
       THEN /\ ready' = Append(ready, [k |-> "stop", o |-> 0])
            /\ stopRequested' = stopRequested + 1
       ELSE UNCHANGED <<ready, stopRequested>>
    /\ gpc' = "idle"
    /\ UNCHANGED <<guiVars, poolVars, storeVars, txVars, histVars, isoVars, waitVars, loop, thread, errors, pool,
                   ops, connecting, nConnected, closePc, stops, stop_start, calling,
                   executing, skipped, nCalls>>

\* close_future.result(timeout=5) returns, raises what _close raised, or
\* raises TimeoutError after the timeout; except Exception logs a warning;
\* finally: self.loop.call_soon_threadsafe(self.loop.stop).
stop_result(outcome) ==
    /\ gpc = "stop_wait"
    /\ IF outcome = "timeout"
       THEN /\ closePc \notin {"done", "raised"}
            /\ clock' = stop_start + StopTimeoutTicks
       ELSE /\ closePc \in {"done", "raised"}
            /\ clock' = clock
    /\ ready' = Append(ready, [k |-> "stop", o |-> 0])
    /\ stopRequested' = stopRequested + 1
    /\ gpc' = "idle"
    /\ UNCHANGED <<guiVars, poolVars, storeVars, txVars, histVars, isoVars, waitVars, loop, thread, errors, pool,
                   ops, connecting, nConnected, closePc, stops, stop_start, calling,
                   executing, skipped, nCalls>>

\* The loop runs loop.stop: the loop is stopping, and leaves run_forever() at
\* the end of its current iteration.
loop_stop ==
    /\ LoopTakes("stop")
    /\ loop' = "stopping"
    /\ UNCHANGED <<guiVars, poolVars, storeVars, txVars, histVars, isoVars, waitVars, thread, clock, gpc, errors,
                   pool, ops, connecting, nConnected, closePc, stops, stop_start,
                   stopRequested, calling, executing, skipped, nCalls>>

\* run_forever() returns and _run_event_loop ends.  What is still queued or in
\* flight is never run again.
run_forever_return ==
    /\ thread = "running" /\ loop = "stopping" /\ executing = {}
    /\ loop' = "stopped"
    /\ thread' = "exited"
    /\ UNCHANGED <<guiVars, poolVars, storeVars, txVars, histVars, isoVars, waitVars, clock, gpc, errors, pool,
                   ready, ops, connecting, nConnected, closePc, stops, stop_start,
                   stopRequested, calling, executing, skipped, nCalls>>

\* Mutant of connect: a call that found the loop unready leaves _connect
\* queued for the loop to run later.
connect_queues_unready(flag) ==
    /\ gpc = "idle"
    /\ nConnects < MaxConnects
    /\ nConnects' = nConnects + 1
    /\ flag = is_loop_ready
    /\ waited' = Append(waited, flag)
    /\ ready_at_call' = flag
    /\ start_time' = clock
    /\ polls' = IF flag THEN 0 ELSE TimeoutTicks \div SleepTicks
    /\ clock' = IF flag THEN clock ELSE clock + TimeoutTicks
    /\ scheduled' = IF flag THEN scheduled + 1 ELSE scheduled
    /\ ready' = Append(ready, [k |-> "connect", o |-> 0])
    /\ errors' = IF flag THEN errors ELSE Append(errors, "loop_not_started")
    /\ UNCHANGED <<guiVars, poolVars, storeVars, txVars, histVars, isoVars, is_loop_ready, loop, thread, gpc, pool,
                   ops, connecting, nConnected, closePc, stops, stop_start,
                   stopRequested, calling, executing, skipped, nCalls>>

\* connect() as its caller sees it, wait_for_loop() taken as a whole: it
\* returns True when the ready flag is set, and False, the timeout later, when
\* the flag is not set; connect() then hands _connect to the loop or emits the
\* error event.
connect(flag) ==
    /\ gpc = "idle"
    /\ nConnects < MaxConnects
    /\ nConnects' = nConnects + 1
    /\ flag = is_loop_ready
    /\ waited' = Append(waited, flag)
    /\ ready_at_call' = flag
    /\ start_time' = clock
    /\ polls' = IF flag THEN 0 ELSE TimeoutTicks \div SleepTicks
    /\ clock' = IF flag THEN clock ELSE clock + TimeoutTicks
    /\ IF flag
       THEN /\ scheduled' = scheduled + 1
            /\ ready' = Append(ready, [k |-> "connect", o |-> 0])
            /\ errors' = errors
       ELSE /\ scheduled' = scheduled
            /\ ready' = ready
            /\ errors' = Append(errors, "loop_not_started")
    /\ UNCHANGED <<guiVars, poolVars, storeVars, txVars, histVars, isoVars, is_loop_ready, loop, thread, gpc, pool,
                   ops, connecting, nConnected, closePc, stops, stop_start,
                   stopRequested, calling, executing, skipped, nCalls>>

NextBridge ==
    \/ start
    \/ \E ok \in BOOLEAN : _run_event_loop_new(ok)
    \/ _run_event_loop_ready
    \/ _run_event_loop_run
    \/ \E flag \in BOOLEAN : connect(flag)
    \/ \E tag \in Tags : EntryPoint(tag)
    \/ create_excel_report
    \/ add_done_callback
    \/ loop_step_end
    \/ _connect_create_pool
    \/ \E ok \in BOOLEAN : _connect(ok)
    \/ \E o \in Ops, ok \in BOOLEAN : _execute_query_acquire(o, ok)
    \/ \E o \in Ops, outcome \in {"ok", "cursor", "execute", "fetch"} :
          _execute_query(o, outcome)
    \/ \E o \in Ops : _delete_await(o)
    \/ \E o \in Ops, ok \in BOOLEAN : _delete_return(o, ok)
    \/ stop_call
    \/ \E n \in 1..MaxStops, ok \in BOOLEAN : _close(n, ok)
    \/ \E ok \in BOOLEAN : _close_wait_closed(ok)
    \/ \E outcome \in {"done", "timeout"} : stop_result(outcome)
    \/ loop_stop
    \/ run_forever_return

SpecBridge == Init /\ [][NextBridge]_vars


\* ------------------------------------------------------------------ claims
Done(t) == pc[t] = "done"

Committed(t) == Done(t) /\ result[t] = "True"

Failed(t) == Done(t) /\ result[t] = "raised"

Positions(t, op) == {i \in DOMAIN log[t] : log[t][i].op = op}

Issued(t, op) == Positions(t, op) # {}

Completed(t, op) == \E i \in Positions(t, op) : log[t][i].ok

\* C1: atomicity of a cascade delete.  When a cascade delete has finished with
\* an exception (a statement after the connection was opened failed, the final
\* target delete in particular, or the commit, or the rollback itself) and no
\* other operation has committed a change since it was submitted, the store
\* holds exactly the rows it held when the operation was submitted: the
\* dependency rows deleted inside the transaction and the target row exist.
C1_Atomicity ==
    \A t \in Tx :
        (Failed(t) /\ ~interf[t]) => Store = before[t]

\* C1 happens: the target delete failed after a dependency delete of the same
\* transaction had removed rows, the rollback was issued, the store is as before.
C1_Witness ==
    \E t \in Tx :
        /\ Failed(t) /\ ~interf[t] /\ exc[t] = "delete_target"
        /\ \E i \in Positions(t, "delete_items") : log[t][i].ok /\ log[t][i].n > 0
        /\ Completed(t, "rollback")
        /\ Store = before[t]

\* C2: cascade completeness of delete_collector.  After a delete_collector(c)
\* that committed, with no other operation committing in between: no
\* collection_item row of a collection c owned, no collection row of author c
\* and no collector row c are left, and every other row is as it was.
C2_CascadeComplete ==
    \A t \in Tx :
        (Committed(t) /\ kind[t] = "collector" /\ ~interf[t]) =>
            LET c == target[t]
                owned == {r.id : r \in {x \in before[t].collection : x.author = c}}
            IN  /\ \A r \in collection_item : r.id_collection \notin owned
                /\ \A r \in collection : r.author # c
                /\ c \notin collector
                /\ collector = before[t].collector \ {c}
                /\ collection = {r \in before[t].collection : r.author # c}
                /\ catalog = before[t].catalog
                /\ collection_item =
                       {r \in before[t].collection_item : r.id_collection \notin owned}

\* C2 happens: a committed delete_collector whose collector owned two
\* collections, one of them with two items.
C2_Witness ==
    \E t \in Tx :
        /\ Committed(t) /\ kind[t] = "collector" /\ ~interf[t]
        /\ target[t] \in before[t].collector
        /\ Cardinality({x \in before[t].collection : x.author = target[t]}) >= 2
        /\ \E x \in before[t].collection :
              /\ x.author = target[t]
              /\ Cardinality({r \in before[t].collection_item :
                                  r.id_collection = x.id}) >= 2


\* C3: referential invariant for collection_item.  Whenever no cascade-delete
\* transaction is open, every collection_item row references a collection row
\* and a catalog row that exist, whatever pooled mutation committed while a
\* delete_collector was between its scan and its bulk delete.
C3_ItemsReferToRows ==
    (\A t \in Tx : pc[t] \in {"idle", "done"}) =>
        \A r \in collection_item :
            /\ \E x \in collection : x.id = r.id_collection
            /\ r.id_catalog \in catalog

\* C4: referential invariant for collection.  No collection row has as author
\* a collector whose row a committed delete_collector removed (collector rows
\* are removed by nothing else, and every author at start is a collector).
C4_CollectionsReferToCollectors ==
    \A r \in collection : r.author \notin (CollectorIds \ collector)

\* The collection ids a slot's scan discovered, each with its items deleted, in
\* the log before position i.
ItemsDeletedBefore(t, i) ==
    \A k \in scanned[t] :
        \E j \in 1..(i - 1) :
            /\ log[t][j].op = "delete_items"
            /\ log[t][j].arg = k
            /\ log[t][j].ok

\* C5: statement ordering inside a cascade delete.  The target delete is issued
\* only after every dependency delete of the operation has completed and none
\* is issued after it; in delete_collector the item deletes of every discovered
\* collection complete before the bulk delete of the collections, which
\* completes before the delete of the collector row.
C5_Ordering ==
    \A t \in Tx : \A i \in DOMAIN log[t] :
        /\ log[t][i].op = "delete_collections" => ItemsDeletedBefore(t, i)
        /\ log[t][i].op = "delete_target" =>
              /\ \A j \in DOMAIN log[t] :
                    log[t][j].op \in {"delete_items", "delete_collections"} =>
                        j < i /\ log[t][j].ok
              /\ kind[t] = "collector" =>
                    /\ ItemsDeletedBefore(t, i)
                    /\ \E j \in 1..(i - 1) :
                          log[t][j].op = "delete_collections" /\ log[t][j].ok
              /\ (kind[t] # "collector" /\ count[t] > 0) =>
                    \E j \in 1..(i - 1) :
                        /\ log[t][j].op = "delete_items"
                        /\ log[t][j].arg = target[t]
                        /\ log[t][j].ok

\* C5 happens: a delete_collector that discovered two collections has issued
\* its target delete.
C5_Witness ==
    \E t \in Tx :
        /\ kind[t] = "collector"
        /\ Cardinality(scanned[t]) >= 2
        /\ Issued(t, "delete_target")


\* Every store table but the two a delete of the given kind must touch.
OnlyDeleted(t, items, key) ==
    /\ collection_item = before[t].collection_item \ items
    /\ collector = before[t].collector
    /\ IF kind[t] = "catalog"
       THEN /\ catalog = before[t].catalog \ {key}
            /\ collection = before[t].collection
       ELSE /\ catalog = before[t].catalog
            /\ collection = {r \in before[t].collection : r.id # key}

\* C6: postcondition of delete_catalog_item and delete_collection.  A committed
\* delete_catalog_item(i) leaves no collection_item row with id_catalog = i
\* and no catalog row i; a committed delete_collection(k) leaves no
\* collection_item row with id_collection = k and no collection row k; with
\* no other operation committing in between, exactly the dependent rows and
\* the target row are gone; and the coroutine whose commit completed returns
\* True.
C6_DeletePostcondition ==
    \A t \in Tx :
        /\ (Done(t) /\ Completed(t, "commit")) => result[t] = "True"
        /\ (Committed(t) /\ kind[t] = "catalog") =>
              /\ \A r \in collection_item : r.id_catalog # target[t]
              /\ target[t] \notin catalog
              /\ ~interf[t] =>
                    OnlyDeleted(t, {r \in before[t].collection_item :
                                        r.id_catalog = target[t]}, target[t])
        /\ (Committed(t) /\ kind[t] = "collection") =>
              /\ \A r \in collection_item : r.id_collection # target[t]
              /\ \A r \in collection : r.id # target[t]
              /\ ~interf[t] =>
                    OnlyDeleted(t, {r \in before[t].collection_item :
                                        r.id_collection = target[t]}, target[t])

\* C6 happens: a committed delete_catalog_item whose catalog row was referenced
\* by two collection_item rows, which the transaction deleted.
C6_Witness ==
    \E t \in Tx :
        /\ Committed(t) /\ kind[t] = "catalog" /\ ~interf[t]
        /\ target[t] \in before[t].catalog
        /\ count[t] = 2
        /\ \E i \in Positions(t, "delete_items") : log[t][i].ok /\ log[t][i].n = 2

\* C7: the optional DependencyDelete of delete_collection and
\* delete_catalog_item.  Once the scan has returned its count, the bulk delete
\* of the dependent collection_item rows is (or is about to be) issued exactly
\* when the count is greater than zero; with a count of 0 the statements of a
\* committed operation are the scan, the target delete and the commit.
C7_OptionalDependencyDelete ==
    \A t \in Tx :
        (kind[t] # "collector" /\ Completed(t, "scan")) =>
            /\ count[t] > 0 <=> (pc[t] = "items" \/ Issued(t, "delete_items"))
            /\ Cardinality(Positions(t, "delete_items")) <= 1
            /\ (count[t] = 0 /\ Committed(t)) =>
                  [i \in DOMAIN log[t] |-> log[t][i].op] =
                      <<"connect", "scan", "delete_target", "commit", "close">>

\* C7 happens: a committed delete_collection whose scan counted no item.
C7_Witness ==
    \E t \in Tx :
        /\ kind[t] = "collection" /\ Committed(t)
        /\ target[t] \in {r.id : r \in before[t].collection}
        /\ count[t] = 0
        /\ ~Issued(t, "delete_items")


Statements == {"scan", "delete_items", "delete_collections", "delete_target"}

\* The statements and the commit of slot t that raised.
Raised(t) ==
    {i \in DOMAIN log[t] : log[t][i].op \in Statements \cup {"commit"} /\ ~log[t][i].ok}

\* Commit, rollback and a failed connect in the statement log of slot t.
CommitRollback(t) ==
    /\ Issued(t, "commit") =>
          /\ Completed(t, "delete_target")
          /\ \A i \in DOMAIN log[t] : log[t][i].op \in Statements => log[t][i].ok
    /\ (Done(t) /\ Completed(t, "connect") /\ Raised(t) \ Positions(t, "commit") = {}) =>
          Issued(t, "commit")
    /\ Issued(t, "rollback") => Raised(t) # {}
    /\ (Done(t) /\ Raised(t) # {}) => Issued(t, "rollback")
    /\ Cardinality(Positions(t, "rollback")) <= 1
    /\ Cardinality(Positions(t, "commit")) <= 1
    /\ \A i \in Positions(t, "commit"), j \in Positions(t, "rollback") :
          log[t][i].ok => j < i
    /\ (Done(t) /\ ~Completed(t, "connect")) =>
          /\ [i \in DOMAIN log[t] |-> log[t][i].op] = <<"connect">>
          /\ result[t] = "raised"
          /\ exc[t] = "connect"

\* C8: terminal outcome of a cascade delete.  Commit is issued exactly when the
\* scan and every delete succeeded; a rollback is issued exactly when a
\* statement or the commit raised, never after a successful commit, and the
\* exception that was raised is then the one re-raised to the caller; a failed
\* connect issues no statement, no commit and no rollback, and propagates.
C8_SameExceptionReraised ==
    \A t \in Tx :
        /\ CommitRollback(t)
        /\ (Done(t) /\ Issued(t, "rollback")) =>
              /\ result[t] = "raised"
              /\ exc[t] = log[t][CHOOSE i \in Raised(t) : TRUE].op

\* C9: connection release.  The close of the dedicated connection is issued at
\* most once and only as the last thing the coroutine does; a finished cascade
\* delete that had opened its connection has closed it exactly once, whatever
\* the outcome, and one whose connect failed has closed nothing.
C9_ConnectionReleased ==
    \A t \in Tx :
        /\ Cardinality(Positions(t, "close")) <= 1
        /\ Issued(t, "close") => Done(t) /\ log[t][Len(log[t])].op = "close"
        /\ (Done(t) /\ Completed(t, "connect")) =>
              Cardinality(Positions(t, "close")) = 1 /\ conn[t] = "closed"
        /\ (Done(t) /\ ~Completed(t, "connect")) =>
              ~Issued(t, "close") /\ conn[t] = "none"
        /\ (pc[t] \notin {"idle", "done", "connect"}) => conn[t] = "open"

\* C9 happens: a statement failed, the rollback itself failed, and the
\* connection was closed once.
C9_Witness ==
    \E t \in Tx :
        /\ Failed(t) /\ exc[t] = "rollback"
        /\ Cardinality(Positions(t, "close")) = 1
        /\ conn[t] = "closed"


\* The caller thread runs its own code to the end: the loop test, the sleep
\* and the return of wait_for_loop are taken when they are due.  Nothing
\* obliges the worker thread to make progress, or to be started at all.
LiveGate ==
    /\ Init
    /\ [][NextGate]_vars
    /\ WF_vars(wait_for_loop_while)
    /\ WF_vars(wait_for_loop_sleep)
    /\ WF_vars(connect_return)

Count(seq, v) == Cardinality({i \in DOMAIN seq : seq[i] = v})

\* The bounds of one wait_for_loop call, and what its result tells.
GateBounded ==
    /\ polls * SleepTicks = clock - start_time
    /\ clock - start_time <= TimeoutTicks
    /\ ready_at_call => polls = 0
    /\ Len(waited) = IF gpc = "idle" THEN nConnects ELSE nConnects - 1
    /\ scheduled = Count(waited, TRUE)
    /\ Count(errors, "loop_not_started") = Count(waited, FALSE)
    /\ (gpc = "idle" /\ nConnects > 0) =>
          /\ waited[Len(waited)] => is_loop_ready
          /\ ~waited[Len(waited)] => clock - start_time = TimeoutTicks
          /\ ~is_loop_ready => ~waited[Len(waited)]

\* C10: the readiness gate is bounded.  A call of connect() always returns;
\* its wait_for_loop sleeps at most timeout / 0.1 times and never past the
\* timeout; it returns true only if the ready flag is set; while the flag has
\* never been set it returns false after the timeout, and connect() emits the
\* error event and schedules nothing; when the flag was set at the call,
\* it returns without sleeping.
C10_ReadinessGateBounded ==
    /\ []GateBounded
    /\ (gpc # "idle") ~> (gpc = "idle")

\* C10 happens: start() was never called, connect() polled for the whole
\* timeout, returned false and emitted the error event.
C10_Witness ==
    /\ thread = "none" /\ ~is_loop_ready
    /\ gpc = "idle" /\ nConnects = 1
    /\ waited = <<FALSE>>
    /\ polls * SleepTicks = TimeoutTicks
    /\ errors = <<"loop_not_started">>
    /\ scheduled = 0


\* The loop keeps running what is ready while run_forever() has not returned,
\* and the store answers or fails every request; the caller thread runs the
\* statement that follows run_coroutine_threadsafe and the wait inside stop().
LiveBridge ==
    /\ Init
    /\ [][NextBridge]_vars
    /\ WF_vars(loop_step_end)
    /\ WF_vars(_connect_create_pool)
    /\ WF_vars(\E ok \in BOOLEAN : _connect(ok))
    /\ WF_vars(\E o \in Ops, ok \in BOOLEAN : _execute_query_acquire(o, ok))
    /\ WF_vars(\E o \in Ops, outcome \in {"ok", "cursor", "execute", "fetch"} :
                  _execute_query(o, outcome))
    /\ WF_vars(\E o \in Ops : _delete_await(o))
    /\ WF_vars(\E o \in Ops, ok \in BOOLEAN : _delete_return(o, ok))
    /\ WF_vars(\E n \in 1..MaxStops, ok \in BOOLEAN : _close(n, ok))
    /\ WF_vars(\E ok \in BOOLEAN : _close_wait_closed(ok))
    /\ WF_vars(loop_stop)
    /\ WF_vars(run_forever_return)
    /\ WF_vars(add_done_callback)
    /\ WF_vars(\E outcome \in {"done", "timeout"} : stop_result(outcome))

\* _connect coroutines handed to the loop and not yet started.
QueuedConnects == Count(ready, [k |-> "connect", o |-> 0])

\* Connection attempts: create_pool calls begun.
Attempts == connecting + nConnected + Count(errors, "connect_failed")

\* C11: a connect() that found the Runtime unready is dropped, not queued.
\* Every call that timed out emitted exactly one error event and scheduled
\* nothing; the connection attempts made, pending or queued are exactly those
\* of the calls that found the Runtime ready, so the pool stays unset until
\* such a call is made, also when the Runtime becomes ready afterwards.
C11_UnreadyConnectDropped ==
    /\ Count(errors, "loop_not_started") = Count(waited, FALSE)
    /\ scheduled = Count(waited, TRUE)
    /\ Attempts + QueuedConnects = scheduled
    /\ scheduled = 0 => pool = "none" /\ nConnected = 0

\* C11 happens: connect() timed out, the Runtime became ready later, and no
\* connection attempt exists.
C11_Witness ==
    /\ waited = <<FALSE>>
    /\ errors = <<"loop_not_started">>
    /\ is_loop_ready /\ loop = "running"
    /\ ready = <<>> /\ Attempts = 0 /\ pool = "none"

\* The manager's state an entry point could touch, and the store.
ManagerState == <<pool, loop, thread, is_loop_ready, ready, ops, connecting, closePc,
                  calling, executing, gpc>>
Events == <<errors, nConnected>>

\* An entry point of the manager, not the exporter, has been called.
EntryPointCalled ==
    /\ nCalls' = nCalls + 1
    /\ ~(calling' # 0 /\ ops'[calling'].tag = "excel_report")

\* C12: the pool guard is a silent no-op.  A call of any of the 17 entry
\* points while the pool is not set schedules nothing, emits nothing and
\* changes nothing of the manager or the store.
C12_PoolGuardNoOp ==
    [][(pool = "none" /\ EntryPointCalled) =>
          /\ skipped' = skipped + 1
          /\ UNCHANGED <<ManagerState, Events, storeVars, txVars>>]_vars

\* C12 happens: entry points were called while the loop ran without a pool.
C12_Witness ==
    /\ skipped = MaxCalls
    /\ pool = "none" /\ loop = "running"
    /\ Count(errors, "connect_failed") > 0

\* C13: outcome of connect() on a ready Runtime.  Each _connect that ends
\* emits exactly one event: connected, with the pool set, when create_pool
\* succeeded; an error event, with the pool left as it was, when it failed.
\* The pool is set exactly when some _connect has succeeded, and entry-point
\* calls are no-ops before that and are scheduled after it.
C13_ConnectOutcome ==
    /\ [](pool # "none" <=> nConnected > 0)
    /\ [][connecting' = connecting - 1 =>
             \/ /\ pool' = "open" /\ nConnected' = nConnected + 1
                /\ errors' = errors
             \/ /\ pool' = pool /\ nConnected' = nConnected
                /\ errors' = Append(errors, "connect_failed")]_vars
    /\ [][EntryPointCalled =>
             IF nConnected = 0
             THEN skipped' = skipped + 1 /\ ops' = ops /\ ready' = ready
             ELSE /\ skipped' = skipped
                  /\ calling' \in Ops /\ ops'[calling'].pc = "queued"
                  /\ ready' = Append(ready, [k |-> "op", o |-> calling'])]_vars

\* C13 happens: create_pool failed, an entry point was skipped, a later
\* connect() succeeded and an entry point was scheduled.
C13_Witness ==
    /\ errors = <<"connect_failed">>
    /\ nConnected = 1 /\ pool = "open"
    /\ skipped = 1
    /\ \E o \in Ops : ops[o].pc = "queued" /\ ops[o].tag \in Tags

\* C14: typed completion event.  An operation whose coroutine has finished and
\* whose callback is attached has exactly one event: data_loaded with its tag
\* and result if it returned, error_occurred with its tag and the exception if
\* it raised; before that it has none.
C14_TypedCompletionEvent ==
    \A o \in Ops :
        ops[o].tag \in Tags =>
            IF ops[o].pc = "done" /\ ops[o].cb
            THEN /\ Len(ops[o].evs) = 1
                 /\ ops[o].evs[1].tag = ops[o].tag
                 /\ ops[o].evs[1].text = ops[o].res
                 /\ ops[o].out = "returned" => ops[o].evs[1].sig = "data_loaded"
                 /\ ops[o].out = "raised" => ops[o].evs[1].sig = "error_occurred"
            ELSE ops[o].evs = <<>>

\* C14 happens: a cascade delete raised and its error event was emitted.
C14_Witness ==
    \E o \in Ops :
        /\ ops[o].tag = "collector_deleted"
        /\ ops[o].pc = "done" /\ ops[o].out = "raised"
        /\ ops[o].evs = <<[sig |-> "error_occurred", tag |-> "collector_deleted",
                           text |-> "exception"]>>

\* C15: Execute never raises past its boundary.  A coroutine that is one
\* _execute_query, read-shaped or write-shaped, always returns: null when
\* acquire, cursor, execute or fetch failed, and null without an acquire when
\* the pool is not set.
C15_ExecuteNeverRaises ==
    \A o \in Ops :
        (ops[o].pc = "done" /\ ops[o].tag \notin CascadeTags) =>
            /\ ops[o].out = "returned"
            /\ ops[o].fail \in {"acquire", "cursor", "execute", "fetch"}
                  => ops[o].res = "null"
            /\ ops[o].acq = 0 => ops[o].res = "null" /\ ops[o].fail = "none"
            /\ pool = "none" => ops[o].acq = 0

\* C15 happens: a write-shaped statement failed in execute and returned null.
C15_Witness ==
    \E o \in Ops :
        /\ ops[o].tag = "collection_updated"
        /\ ops[o].pc = "done" /\ ops[o].fail = "execute"
        /\ ops[o].res = "null" /\ ops[o].out = "returned"

\* C16: shutdown always proceeds.  A stop() that found the loop running
\* requests loop.stop when its wait ends, whether _close succeeded, raised or
\* did not finish, and returns no later than the timeout after it began to
\* wait; stop() always returns, and the worker thread then leaves run_forever.
C16_ShutdownProceeds ==
    /\ [][(gpc = "stop_wait" /\ gpc' # "stop_wait") =>
             /\ gpc' = "idle"
             /\ stopRequested' = stopRequested + 1
             /\ Count(ready', [k |-> "stop", o |-> 0])
                   = Count(ready, [k |-> "stop", o |-> 0]) + 1
             /\ clock' - stop_start <= StopTimeoutTicks]_vars
    /\ (gpc = "stop_wait") ~> (gpc = "idle")
    /\ (gpc = "stop_wait") ~> (thread = "exited" /\ loop = "stopped")

\* C16 happens: _close did not finish within the timeout, and the loop was
\* stopped all the same.
C16_Witness ==
    /\ closePc = "wait_closed"
    /\ clock - stop_start = StopTimeoutTicks
    /\ gpc = "idle" /\ stopRequested = 1
    /\ thread = "exited" /\ loop = "stopped"

\* The operation of slot o passed the guard of its entry point, was handed to
\* the loop and has not finished.
Pending(o) == ops[o].tag \in Tags /\ ops[o].pc \in {"queued", "held", "tx"}

\* C17: run to completion.  Every operation handed to the loop eventually
\* finishes and its completion event is eventually emitted, also when stop()
\* is called while it is queued or in flight.
C17_RunToCompletion ==
    \A o \in Ops :
        Pending(o) ~> (ops[o].pc = "done" /\ ops[o].evs # <<>>)

\* C18: serialized execution on the Runtime thread.  At most one coroutine
\* step is executing at any time, and the thread executing it is the worker
\* thread inside run_forever(), whatever the caller thread is doing.
C18_SerializedOnWorker ==
    /\ Cardinality(executing) <= 1
    /\ \A e \in executing :
          e[1] = "worker" /\ thread = "running" /\ is_running

\* C18 happens: the worker is inside a step of an operation's coroutine while
\* the caller thread is between run_coroutine_threadsafe and add_done_callback.
C18_Witness ==
    /\ executing = {<<"worker", "operation">>}
    /\ gpc = "add_done_callback"


\* ------------------------------------------------ pooled reads and isolation
\* What a statement on a pooled connection reads: the committed store, less
\* the rows deleted on a connection that commits each statement by itself.
View ==
    LET d == LockedBy({t \in Tx : session[t].autocommit})
    IN  [collector |-> collector \ d.collectors,
         collection |-> {r \in collection : r.id \notin d.collections},
         catalog |-> catalog \ d.catalogs,
         collection_item |-> collection_item \ d.items]

\* The rows the committed run of slot t has removed from the store.
CommittedDel(t) ==
    [items |-> before[t].collection_item \ collection_item,
     collections |-> {r.id : r \in before[t].collection} \ {r.id : r \in collection},
     collectors |-> before[t].collector \ collector,
     catalogs |-> before[t].catalog \ catalog]

\* How many of the rows `del` a pooled read finds.
Present(del) ==
    Cardinality(del.items \cap View.collection_item)
        + Cardinality(del.collections \cap {r.id : r \in View.collection})
        + Cardinality(del.collectors \cap View.collector)
        + Cardinality(del.catalogs \cap View.catalog)

\* What a pooled read that runs now sees of the deletes of slot t: of the
\* uncommitted ones while the transaction is open, of the committed ones once
\* the run has committed.
Seen(t) ==
    LET open == txDel[t] # NoDel
        del == IF open THEN txDel[t] ELSE CommittedDel(t)
        phase == IF open THEN "open"
                 ELSE IF pc[t] = "done" /\ result[t] = "True" /\ Rows(del) > 0
                      THEN "committed" ELSE "none"
    IN  [phase |-> phase,
         vis |-> IF phase = "none" THEN "none"
                 ELSE IF Present(del) = Rows(del) THEN "all"
                 ELSE IF Present(del) = 0 THEN "nothing" ELSE "part"]

\* _get_statistics through _execute_query: async with self.pool.acquire()
_get_statistics_acquire ==
    /\ readPc = "idle"
    /\ readPc' = "acquired"
    /\ poolInUse' = poolInUse + 1
    /\ UNCHANGED <<guiVars, poolVars, storeVars, txVars, histVars, gateVars, bridgeVars, session, lastRead>>

\* The SELECT that counts the rows of the four tables, and the release of the
\* connection; a failed SELECT observes nothing.
_get_statistics(ok) ==
    /\ readPc = "acquired"
    /\ readPc' = "idle"
    /\ poolInUse' = poolInUse - 1
    /\ lastRead' = IF ok THEN [t \in Tx |-> Seen(t)] ELSE lastRead
    /\ UNCHANGED <<guiVars, poolVars, storeVars, txVars, histVars, gateVars, bridgeVars, session>>

NextIso ==
    \/ \E t \in Tx, id \in 1..MaxId :
          \/ delete_collector(t, id)
          \/ delete_collection(t, id)
          \/ delete_catalog_item(t, id)
    \/ \E t \in Tx, ok \in BOOLEAN :
          \/ Connect(t, ok)
          \/ _delete_collector_scan(t, ok)
          \/ _delete_collector_items(t, ok)
          \/ _delete_collector_collections(t, ok)
          \/ _delete_collector_target(t, ok)
          \/ _delete_collection_scan(t, ok)
          \/ _delete_collection_items(t, ok)
          \/ _delete_collection_target(t, ok)
          \/ _delete_catalog_item_scan(t, ok)
          \/ _delete_catalog_item_links(t, ok)
          \/ _delete_catalog_item_target(t, ok)
          \/ Commit(t, ok)
          \/ Rollback(t, ok)
    \/ _get_statistics_acquire
    \/ \E ok \in BOOLEAN : _get_statistics(ok)

SpecIso == Init /\ [][NextIso]_vars

\* C19: isolation of an open cascade delete.  A pooled read that ran while
\* the transaction had uncommitted deletes saw every deleted row still
\* present; one that ran after the commit saw none of them; no pooled read saw
\* only some of them.
C19_OpenDeleteIsolated ==
    \A t \in Tx :
        /\ lastRead[t].phase = "open" => lastRead[t].vis = "all"
        /\ lastRead[t].phase = "committed" => lastRead[t].vis = "nothing"
        /\ lastRead[t].vis # "part"

\* C19 happens: a pooled read ran between two deletes of an open transaction
\* that goes on to its commit.
C19_Witness ==
    \E t \in Tx :
        /\ lastRead[t] = [phase |-> "open", vis |-> "all"]
        /\ pc[t] = "commit"
        /\ Rows(txDel[t]) >= 3

\* C20: dedicated connection for transactions.  A cascade delete holds no
\* connection of the shared pool and no step of it changes the number in use;
\* every statement it issues runs on the one connection it opened, which has
\* autocommit disabled; the store changes only in its successful commit.
C20_DedicatedConnection ==
    /\ [](\A t \in Tx :
            /\ session[t] \in {NoConn, Dedicated}
            /\ \A i \in DOMAIN log[t] :
                  log[t][i].op # "connect" => log[t][i].on = Dedicated)
    /\ [](poolInUse = IF readPc = "acquired" THEN 1 ELSE 0)
    /\ [][(pc' # pc \/ log' # log) => poolInUse' = poolInUse]_vars
    /\ [][Store' # Store =>
             \E t \in Tx : pc[t] = "commit" /\ pc'[t] = "done" /\ result'[t] = "True"]_vars

\* C20 happens: a cascade delete has deleted rows on its own connection while
\* a pooled read holds a connection of the pool.
C20_Witness ==
    \E t \in Tx :
        /\ session[t] = Dedicated /\ conn[t] = "open"
        /\ Rows(txDel[t]) >= 2
        /\ Store = before[t]
        /\ readPc = "acquired" /\ poolInUse = 1

\* ------------------------------------------------------------------ C21
\* An item of kind k is put on the loop's queue by this step.
Enqueued(k) ==
    \E o \in {0} \cup Ops :
        LET item == [k |-> k, o |-> o]
        IN  \/ ready # <<>> /\ ready' # ready /\ ready' = Append(Tail(ready), item)
            \/ ready' = Append(ready, item)

\* C21: no automatic retry.  A coroutine is put on the loop's queue only by
\* the call of its entry point, once per call: an operation only by a call of
\* an entry point, _connect only by a call of connect(); an operation takes a
\* pooled connection at most once, so its statement is attempted at most
\* once; an operation that has finished, failed or not, stays finished until
\* a new call takes its slot; and every connection attempt comes from one
\* connect() call that found the loop ready.
C21_NoAutomaticRetry ==
    [][/\ Len(ready') <= Len(ready) + 1
       /\ Enqueued("op") => nCalls' = nCalls + 1 /\ skipped' = skipped
       /\ Enqueued("connect") => nConnects' = nConnects + 1
       /\ Attempts' <= Attempts + 1
       /\ Attempts' + QueuedConnects' = scheduled'
       /\ scheduled' <= nConnects'
       /\ \A o \in Ops :
             /\ ops'[o].acq <= 1
             /\ ops[o].pc = "done" /\ ops'[o].pc # "done" => nCalls' = nCalls + 1
             /\ ops[o].pc \in {"held", "tx"} => ops'[o].pc \in {ops[o].pc, "done"}]_vars

\* C21 happens: the statement of an operation failed, the failure was
\* delivered, a connection attempt failed too, and nothing is queued again.
C21_Witness ==
    /\ \E o \in Ops :
          /\ ops[o].pc = "done" /\ ops[o].fail = "execute" /\ ops[o].res = "null"
          /\ ops[o].acq = 1 /\ Len(ops[o].evs) = 1
    /\ "connect_failed" \in {errors[i] : i \in 1..Len(errors)}
    /\ ready = <<>> /\ executing = {} /\ loop = "running" /\ connecting = 0

\* ------------------------------------------------------------ main window
\* refresh_all_data(): the eight get_* entry points, in the order of the
\* calls, each named by the tag of its completion event.
RefreshAllData_seven ==
    <<"statistics", "collectors", "collections", "catalog", "collection_types",
      "country_stats", "countries">>

RefreshAllData ==
    <<"statistics", "collectors", "collections", "catalog", "collection_types",
      "country_stats", "countries", "collection_types_list">>

\* The window calls the entry points of tags: each returns at the pool guard
\* or hands its coroutine to the loop.
Calls(tags) == IF NotPool THEN <<>> ELSE tags

\* What the coroutine behind a tag can end with: the cascade deletes return
\* True or raise, the others return what _execute_query returned.
Results(tag) == IF tag \in CascadeTags THEN {"True", "exception"} ELSE {"rows", "null"}

\* The finished operation the done-callback sees.
Completed_op(tag, res) ==
    [FreeOp EXCEPT !.pc = "done", !.tag = tag, !.cb = TRUE, !.res = res,
                   !.out = IF res = "exception" THEN "raised" ELSE "returned"]

\* Mutant of Handled: a mutation event without data is not a success.
Handled_checks_data(e) ==
    e.sig = "data_loaded" /\ e.tag \in ModifyTags /\ e.text # "null"

\* on_data_loaded: the branch of the nine mutation tags.
Handled(e) == e.sig = "data_loaded" /\ e.tag \in ModifyTags

\* One of the nine dialog handlers of the window calls add_* / update_* /
\* delete_* of the manager.
on_modify(tag) ==
    /\ nUser < MaxMutations
    /\ nUser' = nUser + 1
    /\ submitted' = submitted \o Calls(<<tag>>)
    /\ nSubmitted' = nSubmitted + Len(Calls(<<tag>>))
    /\ UNCHANGED <<storeVars, txVars, histVars, isoVars, poolVars, gateVars, bridgeVars,
                   connectedSeen, errorsSeen, inbox, lastEvent, nRefresh, nInfo,
                   nCritical>>

\* The oldest unfinished operation of the window ends on the loop and its
\* done-callback emits the completion event.
operation_done(res) ==
    /\ WorkerFree
    /\ Len(inbox) < MaxInbox
    /\ submitted # <<>>
    /\ res \in Results(Head(submitted))
    /\ submitted' = Tail(submitted)
    /\ inbox' = inbox \o OnComplete(Completed_op(Head(submitted), res))
    /\ UNCHANGED <<storeVars, txVars, histVars, isoVars, poolVars, gateVars, bridgeVars,
                   connectedSeen, errorsSeen, lastEvent, nRefresh, nSubmitted, nUser,
                   nInfo, nCritical>>

\* on_database_connected: refresh_all_data().
on_database_connected ==
    /\ connectedSeen < nConnected
    /\ connectedSeen' = connectedSeen + 1
    /\ lastEvent' = [sig |-> "connected", tag |-> "none", text |-> "none"]
    /\ nRefresh' = nRefresh + 1
    /\ submitted' = submitted \o Calls(RefreshAllData)
    /\ nSubmitted' = nSubmitted + Len(Calls(RefreshAllData))
    /\ UNCHANGED <<storeVars, txVars, histVars, isoVars, poolVars, gateVars, bridgeVars,
                   errorsSeen, inbox, nUser, nInfo, nCritical>>

\* on_data_loaded(data_type, data): a read tag updates its view; a mutation
\* tag calls refresh_all_data() and shows the success message, whatever data
\* is.
on_data_loaded ==
    /\ inbox # <<>> /\ Head(inbox).sig = "data_loaded"
    /\ inbox' = Tail(inbox)
    /\ lastEvent' = Head(inbox)
    /\ IF Handled(Head(inbox))
       THEN /\ nRefresh' = nRefresh + 1
            /\ submitted' = submitted \o Calls(RefreshAllData)
            /\ nSubmitted' = nSubmitted + Len(Calls(RefreshAllData))
            /\ nInfo' = nInfo + 1
       ELSE UNCHANGED <<nRefresh, submitted, nSubmitted, nInfo>>
    /\ UNCHANGED <<storeVars, txVars, histVars, isoVars, poolVars, gateVars, bridgeVars,
                   connectedSeen, errorsSeen, nUser, nCritical>>

\* on_database_error(error_message), for the error event of an operation:
\* the message is logged and shown in a QMessageBox.critical.
on_database_error ==
    /\ inbox # <<>> /\ Head(inbox).sig = "error_occurred"
    /\ inbox' = Tail(inbox)
    /\ lastEvent' = Head(inbox)
    /\ nCritical' = nCritical + 1
    /\ UNCHANGED <<storeVars, txVars, histVars, isoVars, poolVars, gateVars, bridgeVars,
                   connectedSeen, errorsSeen, submitted, nRefresh, nSubmitted, nUser,
                   nInfo>>

\* on_database_error(error_message), for an error event of connect() or of
\* the worker thread.
on_database_error_connect ==
    /\ errorsSeen < Len(errors)
    /\ errorsSeen' = errorsSeen + 1
    /\ lastEvent' = [sig |-> "error_occurred", tag |-> "none",
                     text |-> errors[errorsSeen + 1]]
    /\ nCritical' = nCritical + 1
    /\ UNCHANGED <<storeVars, txVars, histVars, isoVars, poolVars, gateVars, bridgeVars,
                   connectedSeen, submitted, inbox, nRefresh, nSubmitted, nUser, nInfo>>

NextGui ==
    \/ start
    \/ \E ok \in BOOLEAN : _run_event_loop_new(ok)
    \/ _run_event_loop_ready
    \/ _run_event_loop_run
    \/ \E flag \in BOOLEAN : connect(flag)
    \/ _connect_create_pool
    \/ \E ok \in BOOLEAN : _connect(ok)
    \/ loop_step_end
    \/ \E tag \in ModifyTags : on_modify(tag)
    \/ \E res \in {"rows", "null", "True", "exception"} : operation_done(res)
    \/ on_database_connected
    \/ on_data_loaded
    \/ on_database_error
    \/ on_database_error_connect

SpecGui == Init /\ [][NextGui]_vars

\* The loop runs what is ready and the window handles what is delivered.
LiveGui ==
    /\ SpecGui
    /\ WF_vars(\E res \in {"rows", "null", "True", "exception"} : operation_done(res))
    /\ WF_vars(loop_step_end)
    /\ WF_vars(on_database_connected)
    /\ WF_vars(on_data_loaded)
    /\ WF_vars(on_database_error)
    /\ WF_vars(on_database_error_connect)

\* ------------------------------------------------------------------ C22
\* The window takes the oldest event out of its queue in this step.
Handles == inbox # <<>> /\ inbox' = Tail(inbox)

\* The operations the window hands to the loop in this step.
NewlySubmitted ==
    IF Len(submitted') >= Len(submitted) /\ submitted # submitted'
    THEN SubSeq(submitted', Len(submitted) + 1, Len(submitted'))
    ELSE <<>>

\* The step hands exactly the eight reads to the loop, each once.
SubmitsEightReads ==
    /\ Len(NewlySubmitted) = 8
    /\ {NewlySubmitted[i] : i \in 1..8} = GetTags
    /\ submitted' = submitted \o NewlySubmitted
    /\ nSubmitted' = nSubmitted + 8

SubmitsNothing == submitted' = submitted /\ nSubmitted' = nSubmitted

\* C22: how the window handles the events.  A result event with one of the
\* nine mutation tags makes refresh_all_data submit exactly the eight reads;
\* a result event with a read tag submits nothing; an error event shows one
\* error dialog and submits nothing.  So the submissions are bounded by the
\* mutations started and the connections made, and once the user stops, the
\* window and the loop come to rest: no event feeds a loop of submissions.
C22_EventHandling ==
    /\ [][Handles =>
            LET e == Head(inbox)
            IN  /\ (e.sig = "data_loaded" /\ e.tag \in ModifyTags) => SubmitsEightReads
                /\ (e.sig = "data_loaded" /\ e.tag \in GetTags) =>
                       SubmitsNothing /\ UNCHANGED <<nInfo, nCritical, nRefresh>>
                /\ e.sig = "error_occurred" =>
                       SubmitsNothing /\ nCritical' = nCritical + 1
                       /\ UNCHANGED <<nInfo, nRefresh>>]_vars
    /\ [](nSubmitted <= nUser + 8 * (nUser + nConnected))
    /\ <>[](inbox = <<>> /\ submitted = <<>>)

\* C22 happens: a mutation ended, its event made the window refresh, the
\* eight reads ended and their events were handled without a new submission.
C22_Witness ==
    /\ nUser = 1 /\ nInfo = 1 /\ nRefresh = 1 + connectedSeen
    /\ connectedSeen = 1
    /\ nSubmitted = 17
    /\ submitted = <<>> /\ inbox = <<>>
    /\ lastEvent.sig = "data_loaded" /\ lastEvent.tag \in GetTags

\* ------------------------------------------------------------------ C25
\* add_collector, update_collector, add_collection, update_collection,
\* add_catalog_item, update_catalog_item: one statement through
\* _execute_query.
NonTransactional == ModifyTags \ CascadeTags

\* C25: a failed non-transactional mutation is delivered as a result event.
\* The coroutine of one of the six ends with one result event of its tag,
\* carrying the rows or null, never with an error event; no event carrying
\* null is an error event; and the window handles the mutation event that
\* carries null as it handles a successful one: full refresh, success
\* message, no error dialog.
C25_FailedMutationIsResult ==
    /\ [][(submitted # <<>> /\ submitted' = Tail(submitted)
             /\ Head(submitted) \in NonTransactional) =>
            \E text \in {"rows", "null"} :
                inbox' = Append(inbox, [sig |-> "data_loaded",
                                        tag |-> Head(submitted), text |-> text])]_vars
    /\ [](\A i \in 1..Len(inbox) : inbox[i].text = "null" => inbox[i].sig = "data_loaded")
    /\ [][(Handles /\ Head(inbox).tag \in ModifyTags /\ Head(inbox).text = "null") =>
            /\ SubmitsEightReads
            /\ nRefresh' = nRefresh + 1
            /\ nInfo' = nInfo + 1
            /\ nCritical' = nCritical]_vars

\* C25 happens: the statement of update_collection failed, the window got
\* (collection_updated, null), refreshed and showed the success message.
C25_Witness ==
    /\ lastEvent = [sig |-> "data_loaded", tag |-> "collection_updated", text |-> "null"]
    /\ nInfo = 1 /\ nCritical = 0
    /\ Len(submitted) = 8

\* ------------------------------------------------------------------ C24
\* A cursor.execute or the commit, as opposed to connect, rollback and close.
IsStatement(e) == e.op \in Statements \cup {"commit"}

\* The statements and the commit a slot has issued, in order.
Shape(t) == SelectSeq(log[t], IsStatement)

\* C24: the exact statement shape of delete_collector.  A delete_collector
\* that reached its commit, having discovered N collections, has issued the
\* scan, exactly N deletes of collection_item, one for each discovered
\* collection id and keyed by it, then exactly one bulk delete of the
\* collections of the author, then exactly one delete of the collector row,
\* then the commit, and nothing else; the bulk delete is there when N = 0.
C24_DeleteCollectorShape ==
    \A t \in Tx :
        (kind[t] = "collector" /\ Issued(t, "commit")) =>
            LET N == Cardinality(scanned[t])
                stm == Shape(t)
            IN  /\ Len(stm) = N + 4
                /\ stm[1].op = "scan" /\ stm[1].arg = target[t]
                /\ \A i \in 2..(N + 1) : stm[i].op = "delete_items" /\ stm[i].ok
                /\ {stm[i].arg : i \in 2..(N + 1)} = scanned[t]
                /\ stm[N + 2].op = "delete_collections" /\ stm[N + 2].arg = target[t]
                /\ stm[N + 3].op = "delete_target" /\ stm[N + 3].arg = target[t]
                /\ stm[N + 4].op = "commit"
                /\ N = count[t]

\* C24 happens: a delete_collector whose scan found no collection has
\* committed after the bulk delete and the delete of the collector row.
C24_Witness ==
    \E t \in Tx :
        /\ Committed(t) /\ kind[t] = "collector"
        /\ scanned[t] = {} /\ count[t] = 0
        /\ Len(Shape(t)) = 4
        /\ Shape(t)[2].op = "delete_collections"

\* ------------------------------------------------------------------ C30
\* When the delete in slot t was submitted, its target had no row and no row
\* depended on it.
AbsentTarget(t) ==
    LET b == before[t]
        id == target[t]
    IN  CASE kind[t] = "collector" ->
                 /\ id \notin b.collector
                 /\ \A r \in b.collection : r.author # id
          [] kind[t] = "collection" ->
                 /\ \A r \in b.collection : r.id # id
                 /\ \A r \in b.collection_item : r.id_collection # id
          [] kind[t] = "catalog" ->
                 /\ id \notin b.catalog
                 /\ \A r \in b.collection_item : r.id_catalog # id
          [] OTHER -> FALSE

\* C30: deleting an absent target is a successful no-op.  A cascade delete
\* whose target has no row and no dependents, whose statements all succeed
\* and which no other operation interferes with, deletes no row in any
\* statement, commits, returns True and leaves the store as it was; so the
\* second of two equal deletes in sequence succeeds like the first and
\* changes nothing.
C30_AbsentDeleteNoOp ==
    \A t \in Tx :
        (Done(t) /\ AbsentTarget(t) /\ exc[t] = "none" /\ ~interf[t]) =>
            /\ result[t] = "True"
            /\ Completed(t, "commit")
            /\ \A i \in DOMAIN log[t] : log[t][i].n = 0
            /\ Store = before[t]

\* C30 happens: the second of two deletes of the same collector has
\* committed, finding no row.
C30_Witness ==
    \E t \in Tx :
        /\ runs = 2 /\ Committed(t) /\ kind[t] = "collector"
        /\ target[t] \notin before[t].collector
        /\ AbsentTarget(t) /\ ~interf[t]
        /\ Issued(t, "delete_target")
        /\ Store = before[t]

\* ------------------------------------------------------------------ C26
\* C26: a pool implies a ready loop.  In every reachable state a pool that is
\* set comes with the ready flag set and the loop object created; the pool is
\* assigned only in a step of _connect on the worker thread; so whenever an
\* entry point hands an operation to the loop, the loop exists, although the
\* entry point tests only the pool.
C26_PoolImpliesReadyLoop ==
    /\ [](pool # "none" => is_loop_ready /\ loop # "none")
    /\ [][(pool = "none" /\ pool' # "none") =>
            /\ executing' = {<<"worker", "_connect">>}
            /\ nConnected' = nConnected + 1]_vars
    /\ [][Enqueued("op") => is_loop_ready /\ loop # "none"]_vars

\* C26 happens: the pool is set and an entry point has handed an operation
\* to the loop.
C26_Witness ==
    /\ pool = "open" /\ is_loop_ready /\ loop = "running"
    /\ \E o \in Ops : ops[o].pc = "queued" /\ ops[o].tag \in Tags
    /\ ready # <<>> /\ Head(ready).k = "op"

\* ------------------------------------------------------------------ C27
\* C27: the completion callback runs exactly once under the attach race.
\* The callback is attached after the coroutine was handed to the loop, so
\* the future may be done before or after.  A finished operation with its
\* callback attached has run the callback once and emitted one event; no
\* other operation has run it or emitted anything; the callback runs on the
\* worker thread when the future completes after the attachment and on the
\* caller thread, in add_done_callback, when it was done before.
C27_CallbackOnce ==
    /\ [](\A o \in Ops :
             IF ops[o].pc = "done" /\ ops[o].cb
             THEN /\ Len(ops[o].ran) = 1
                  /\ ops[o].tag \in Tags => Len(ops[o].evs) = 1
             ELSE ops[o].ran = <<>> /\ ops[o].evs = <<>>)
    /\ [][\A o \in Ops :
             (ops[o].ran = <<>> /\ ops'[o].ran # <<>>) =>
                 IF ops[o].cb
                 THEN /\ ops'[o].ran = <<"worker">>
                      /\ ops[o].pc # "done" /\ executing' # {}
                 ELSE /\ ops'[o].ran = <<"caller">>
                      /\ ops[o].pc = "done" /\ gpc = "add_done_callback"]_vars

\* C27 happens: the coroutine finished before the callback was attached, and
\* the callback ran on the caller thread and emitted the event.
C27_Witness ==
    \E o \in Ops :
        /\ ops[o].pc = "done" /\ ops[o].cb /\ ops[o].tag \in Tags
        /\ ops[o].ran = <<"caller">>
        /\ Len(ops[o].evs) = 1

\* ------------------------------------------------------------------ C28
\* ready is what it was, with more items behind or none.
QueueKept == Len(ready') >= Len(ready) /\ SubSeq(ready', 1, Len(ready)) = ready

\* C28: shutdown does not reset the guards.  The ready flag is never cleared
\* and the pool is never unset.  Once the loop has stopped it stays stopped
\* and takes nothing from its queue; connect() still finds the flag set and
\* hands _connect to the loop; an entry point called with the pool set still
\* hands its coroutine to the loop; no connection attempt begins, no
\* operation that is queued leaves the queue, and no event is emitted.
C28_GuardsSurviveStop ==
    /\ [][is_loop_ready => is_loop_ready']_vars
    /\ [][pool # "none" => pool' # "none"]_vars
    /\ [][loop = "stopped" =>
            /\ loop' = "stopped"
            /\ QueueKept
            /\ nConnects' = nConnects + 1 =>
                   /\ scheduled' = scheduled + 1
                   /\ ready' = Append(ready, [k |-> "connect", o |-> 0])
            /\ (EntryPointCalled /\ pool # "none") =>
                   /\ skipped' = skipped
                   /\ ready' = Append(ready, [k |-> "op", o |-> calling'])
                   /\ ops'[calling'].pc = "queued"
            /\ Attempts' = Attempts
            /\ UNCHANGED <<errors, nConnected, executing>>
            /\ \A o \in Ops :
                   ops[o].pc = "queued" =>
                       ops'[o].pc = "queued" /\ ops'[o].evs = <<>>]_vars

\* C28 happens: after the loop has stopped, a connect() and an operation
\* call passed their guards; both coroutines sit in the queue of the stopped
\* loop and nothing was emitted for them.
C28_Witness ==
    /\ loop = "stopped" /\ thread = "exited" /\ gpc = "idle"
    /\ pool = "closed" /\ is_loop_ready
    /\ waited = <<TRUE, TRUE>>
    /\ ready = <<[k |-> "connect", o |-> 0], [k |-> "op", o |-> 1]>>
    /\ ops[1].pc = "queued" /\ ops[1].cb /\ ops[1].evs = <<>>
    /\ nConnected = 1 /\ errors = <<>>

\* ------------------------------------------------------------------ C29
\* C29: stop() racing with start().  The ready flag is set before the loop
\* runs.  A stop() called while the loop is not running, before the worker
\* thread has entered run_forever() in particular, changes nothing: no
\* _close, no stop request; and a loop whose stop was never requested is
\* never stopped, so after such a call the loop starts and keeps running.
C29_EarlyStopIsNoOp ==
    /\ [](loop \in {"running", "stopping", "stopped"} => is_loop_ready)
    /\ [][(stops' = stops + 1 /\ loop \notin {"running", "stopping"}) =>
            UNCHANGED <<ManagerState, Events, stopRequested, stop_start>>]_vars
    /\ [](closePc = "none" =>
             /\ stopRequested = 0
             /\ loop \notin {"stopping", "stopped"}
             /\ pool # "closed"
             /\ \A i \in 1..Len(ready) : ready[i].k \notin {"close", "stop"})

\* C29 happens: stop() was called before the loop ran and did nothing; the
\* loop then started, connected, and is running.
C29_Witness ==
    /\ stops = 1 /\ closePc = "none" /\ stopRequested = 0
    /\ loop = "running" /\ thread = "running"
    /\ pool = "open" /\ nConnected = 1

\* ------------------------------------------------------------------- pool
\* A coroutine on the loop calls _execute_query with the pool open and
\* reaches async with self.pool.acquire().
_execute_query_enter ==
    /\ pool = "open"
    /\ entered < MaxExecutes
    /\ entered' = entered + 1
    /\ waiting' = waiting + 1
    /\ UNCHANGED <<storeVars, txVars, histVars, gateVars, bridgeVars, isoVars, guiVars,
                   ended>>

\* pool.acquire(): a call gets a connection while fewer than maxsize are in
\* use, and waits otherwise; opening a connection for it can raise, which
\* _execute_query catches, returning None.
pool_acquire(ok) ==
    /\ waiting > 0
    /\ poolInUse < PoolMaxSize
    /\ waiting' = waiting - 1
    /\ IF ok
       THEN poolInUse' = poolInUse + 1 /\ ended' = ended
       ELSE poolInUse' = poolInUse /\ ended' = ended + 1
    /\ UNCHANGED <<storeVars, txVars, histVars, gateVars, bridgeVars, guiVars, session,
                   readPc, lastRead, entered>>

\* Mutant of _execute_query_exit: the connection is released after the
\* statement, with no async with block, so a failed statement keeps it.
_execute_query_exit_keeps_on_failure(ok) ==
    /\ poolInUse > 0
    /\ poolInUse' = IF ok THEN poolInUse - 1 ELSE poolInUse
    /\ ended' = ended + 1
    /\ UNCHANGED <<storeVars, txVars, histVars, gateVars, bridgeVars, guiVars, session,
                   readPc, lastRead, entered, waiting>>

\* The statement of a call that holds a connection succeeds or raises; either
\* way the async with block is left and the connection is back in the pool.
_execute_query_exit(ok) ==
    /\ poolInUse > 0
    /\ poolInUse' = poolInUse - 1
    /\ ended' = ended + 1
    /\ UNCHANGED <<storeVars, txVars, histVars, gateVars, bridgeVars, guiVars, session,
                   readPc, lastRead, entered, waiting>>

NextPool ==
    \/ start
    \/ \E ok \in BOOLEAN : _run_event_loop_new(ok)
    \/ _run_event_loop_ready
    \/ _run_event_loop_run
    \/ \E flag \in BOOLEAN : connect(flag)
    \/ _connect_create_pool
    \/ \E ok \in BOOLEAN : _connect(ok)
    \/ loop_step_end
    \/ _execute_query_enter
    \/ \E ok \in BOOLEAN : pool_acquire(ok)
    \/ \E ok \in BOOLEAN : _execute_query_exit(ok)

SpecPool == Init /\ [][NextPool]_vars

====
